---- MODULE Spec2Model ----
(***************************************************************************)
(* Model of the nodex controller (state handlers, runtime state file,      *)
(* resource manager, artifact verifier) and of the agent services.         *)
(*                                                                         *)
(* Spec      the controller's state handlers, one handler running at a     *)
(*           time, with the agent processes and the filesystem.            *)
(* SpecVerify  BundleVerifier::verify applied to every bundle/environment. *)
(* SpecConc  two controller threads running StateHandler::handle against   *)
(*           the runtime state file at the granularity of file operations. *)
(***************************************************************************)
EXTENDS Integers, Sequences, FiniteSets, TLC

\* ---------------------------------------------------------------- bounds
MaxPid == 2
MaxVer == 2
MaxClock == 1

VARIABLES
    runtime_info,   \* content of the runtime state file: [state, process_infos]
    alive,          \* pids of the agent processes that are running
    next_pid,       \* pid the next fork() returns
    fs,             \* what the backed-up paths hold
    backups,        \* the .tar.gz archives in tmp_path
    restore_temp,   \* content of /tmp/restore_temp, by relative path
    clock,          \* SystemTime::now() in seconds
    upd,            \* the update in progress (UpdateState::execute)
    last,           \* what the last StateHandler::handle run did
    vin,            \* SpecVerify: what BundleVerifier::verify meets
    vout,           \* SpecVerify: what it returned ("none": not run yet)
    file,           \* SpecConc: the bytes of the runtime state file, in chunks
    flock,          \* SpecConc: the thread holding the exclusive lock (0: none)
    th,             \* SpecConc: each controller thread's position in handle
    res,            \* SpecRes: the backup()/rollback() calls made and their results
    keystore,       \* SpecKey: the secure keystore and the saved DID
    key_run,        \* SpecKey: the last keyring operation and its result
    utc_now,        \* SpecCose: Utc::now(), in ticks
    advanced,       \* SpecCose: the number of times the clock was seen to advance
    token,          \* SpecCose: the Token the caller holds (<<>>: none)
    sign1,          \* SpecCose: the COSE_Sign1 message produced (<<>>: none)
    cose_out,       \* SpecCose: what the last verify_message returned
    wire,           \* SpecMsg: the verifiable message on its way (<<>>: none)
    sent,           \* SpecMsg: what generate was asked to send (<<>>: nothing)
    activities,     \* SpecMsg: the activities recorded for this message
    msg_run,        \* SpecMsg: the last use case call and what it returned
    vc_in,          \* SpecVc: the credential handed to DIDVCService::verify (<<>>: none)
    vc_run,         \* SpecVc: the last DIDVCService call and what it returned
    responses,      \* SpecErr: the responses the agent's HTTP server has sent
    fd_table,       \* SpecAgent: what the controller's descriptors refer to
    mgr,            \* SpecAgent: the UnixAgentManager (<<>>: not constructed)
    procs,          \* SpecAgent: the agent processes, by pid
    ag_run,         \* SpecAgent: the last call on the manager and its result
    stores,         \* SpecMetric: the in-memory and the file-backed metric store
    channel,        \* SpecMetric: the metrics sent to the receiver, not yet received
    sender,         \* SpecMetric: where start_send is, and what it has been told
    workdir,        \* SpecDir: the entries of the working directory, by name
    dir_run,        \* SpecDir: the last get_latest_backup call and its result
    tfs,            \* SpecTasks: the files, directories and JSON fields tasks work on
    task_run,       \* SpecTasks: the last UpdateAction::run and what it did
    host,           \* SpecUpv: the agent binary on disk and the processes started
    upv_run,        \* SpecUpv: the last NodeX::update_version call and what it did
    state_file,     \* SpecLoad: the runtime state file, if it exists, and its bytes
    load_run        \* SpecLoad: the last RuntimeInfo::load_or_default and its result

ctl_vars == <<runtime_info, alive, next_pid, fs, backups, restore_temp, clock, upd, last>>
ver_vars == <<vin, vout>>
conc_vars == <<file, flock, th>>
res_vars == <<res>>
\* the state of the library-level specifications
key_vars == <<keystore, key_run>>
cose_vars == <<utc_now, advanced, token, sign1, cose_out>>
msg_vars == <<wire, sent, activities, msg_run>>
vc_vars == <<vc_in, vc_run>>
err_vars == <<responses>>
agent_vars == <<fd_table, mgr, procs, ag_run>>
metric_vars == <<stores, channel, sender>>
dir_vars == <<workdir, dir_run>>
task_vars == <<tfs, task_run>>
upv_vars == <<host, upv_run>>
load_vars == <<state_file, load_run>>
aux_vars == <<dir_vars, task_vars, upv_vars, load_vars>>
ext_vars == <<vc_vars, err_vars, agent_vars, metric_vars, aux_vars>>
lib_vars == <<res_vars, key_vars, cose_vars, msg_vars, ext_vars>>
vars == <<ctl_vars, ver_vars, conc_vars, lib_vars>>

\* ------------------------------------------------ runtime state (runtime.rs)
ProcessInfo_new(p_id, feat_type) == [process_id |-> p_id, feat_type |-> feat_type]

RuntimeInfo_default == [state |-> "Default", process_infos |-> <<>>]

add_process_info(ri, process_info) ==
    [ri EXCEPT !.process_infos = Append(@, process_info)]

\* RuntimeManager (managers/runtime.rs is not part of the sources)
filter_process_infos(ri, feat_type) ==
    SelectSeq(ri.process_infos, LAMBDA p : p.feat_type = feat_type)

update_state(ri, state) == [ri EXCEPT !.state = state]

is_running(pid, running) == pid \in running

\* retain(|p| remove_and_filter_running_process(p)): the entries of stopped
\* processes are removed from the runtime state, the running ones are kept.
RemoveStopped(ri, running) ==
    [ri EXCEPT !.process_infos =
        SelectSeq(@, LAMBDA p : p.feat_type # "Agent" \/ is_running(p.process_id, running))]

\* ------------------------------------------------- agent manager (agent.rs)
\* fork(): the parent gets the child's pid, or the fork fails.
launch_agent(fork_ok, pid) ==
    IF fork_ok
    THEN [result |-> "Ok", process_info |-> ProcessInfo_new(pid, "Agent")]
    ELSE [result |-> "Err_Agent", process_info |-> ProcessInfo_new(pid, "Agent")]

\* ---------------------------------------------- Default handler (default/mod.rs)
\* agent_processes.len() >= 1 (the liveness filter of the entries is commented out)
agent_already_running_gt(agent_processes) == Len(agent_processes) > 1

agent_already_running(agent_processes) == Len(agent_processes) >= 1

\* fault: the call of this run that fails, if any: reading the runtime state
\* ("read"), fork() ("fork"), writing the runtime state ("write");
\* pid: the pid fork() gives the child.
default_execute(ri, fault, pid) ==
    LET agent_processes == filter_process_infos(ri, "Agent")
        l == launch_agent(fault # "fork", pid)
    IN  IF fault = "read"
        THEN [result |-> "Err_RuntimeInfo", info |-> ri, launched |-> {}]
        ELSE IF agent_already_running(agent_processes)
        THEN [result |-> "Ok", info |-> ri, launched |-> {}]
        ELSE IF l.result # "Ok"
        THEN [result |-> l.result, info |-> ri, launched |-> {}]
        ELSE IF fault = "write"
        THEN [result |-> "Err_RuntimeInfo", info |-> ri, launched |-> {pid}]
        ELSE [result |-> "Ok", info |-> add_process_info(ri, l.process_info),
              launched |-> {pid}]

HandlerFaults == {"none", "read", "fork", "write"}

\* ------------------------------------------- resource manager (resource.rs)
\* Paths are sequences of components; "/" is the root component.
Exe == <<"/", "agent">>
ConfigDir == <<"/", "config">>
\* What a path holds: nothing, a file of some content, or a directory of named
\* files. files is the set of <<name, content>> pairs (a file has the name "").
Absent == [kind |-> "none", files |-> {}]
File(v) == [kind |-> "file", files |-> {<<"", v>>}]
Dir(entries) == [kind |-> "dir", files |-> entries]
\* the files a configuration directory may hold
FileNames == {"config.json", "extra.json"}

\* vec![env::current_exe()?, config.config_dir.clone()]
get_paths_to_backup == <<Exe, ConfigDir>>

\* path.strip_prefix("/").unwrap_or(path)
strip_prefix(path) == IF Len(path) > 0 /\ Head(path) = "/" THEN Tail(path) ELSE path

generate_metadata(src_paths) ==
    [i \in 1..Len(src_paths) |-> <<src_paths[i], strip_prefix(src_paths[i])>>]

AbsPaths == {get_paths_to_backup[i] : i \in 1..Len(get_paths_to_backup)}
RelPaths == {strip_prefix(p) : p \in AbsPaths}

OrigOf(metadata, rel) == metadata[CHOOSE i \in 1..Len(metadata) : metadata[i][2] = rel][1]

\* a path that is neither a directory nor a file is not put into the tarball
add_files_to_tar(tree, metadata) ==
    [r \in {metadata[i][2] : i \in 1..Len(metadata)} |-> tree[OrigOf(metadata, r)]]

\* nodex_backup_<timestamp>.tar.gz: File::create replaces an archive of the same second.
\* outcome "Err_create": the file could not be created; "Err_tar": writing the
\* tarball failed and the truncated file stays in tmp_path.
create_tar_gz_with_metadata(archives, tree, metadata, timestamp, outcome) ==
    LET others == {a \in archives : a.ts # timestamp}
        made == [ts |-> timestamp, ok |-> (outcome = "Ok"),
                 files |-> add_files_to_tar(tree, metadata), metadata |-> metadata]
    IN  IF outcome = "Err_create" THEN archives ELSE others \cup {made}

backup(archives, tree, timestamp, outcome) ==
    [result |-> IF outcome = "Ok" THEN "Ok" ELSE "Err_Resource",
     archives |-> create_tar_gz_with_metadata(
                      archives, tree, generate_metadata(get_paths_to_backup),
                      timestamp, outcome)]

\* the .gz file of tmp_path with the greatest modification time (a set: none or one)
get_latest_backup(archives) ==
    {a \in archives : \A b \in archives : b.ts <= a.ts}

\* Archive::unpack of one entry over what the scratch directory holds at its
\* path: a file replaces a file, a directory is merged into a directory (the
\* files it does not name stay), and a file cannot replace a directory nor a
\* directory a file.
unpack_entry(entry, held) ==
    IF entry.kind = "none" THEN [ok |-> TRUE, node |-> held]
    ELSE IF held.kind = "none" THEN [ok |-> TRUE, node |-> entry]
    ELSE IF entry.kind # held.kind THEN [ok |-> FALSE, node |-> held]
    ELSE IF entry.kind = "file" THEN [ok |-> TRUE, node |-> entry]
    ELSE [ok |-> TRUE,
          node |-> Dir(entry.files \cup
                       {f \in held.files : \A g \in entry.files : g[1] # f[1]})]

\* the entries are unpacked in archive order, from entry i on; the first that
\* fails ends the unpacking and the entries before it stay unpacked
RECURSIVE unpack(_, _, _, _)
unpack(files, metadata, i, temp) ==
    IF i > Len(metadata) THEN [result |-> "Ok", temp |-> temp]
    ELSE LET rel == metadata[i][2]
             u == unpack_entry(files[rel], temp[rel])
         IN  IF ~u.ok THEN [result |-> "Err", temp |-> temp]
             ELSE unpack(files, metadata, i + 1, [temp EXCEPT ![rel] = u.node])

\* create_dir_all(/tmp/restore_temp), then unpack into it: the directory is not
\* emptied first; a truncated archive fails to unpack.
extract_tar_to_temp(archive, temp, open_ok) ==
    IF ~open_ok THEN [result |-> "Err", temp |-> temp]
    ELSE IF ~archive.ok THEN [result |-> "Err", temp |-> temp]
    ELSE unpack(archive.files, archive.metadata, 1, temp)

\* for (original_path, relative_path) in metadata, from entry i on.
\* fault = <<"remove", i>> or <<"rename", i>>: that call of entry i fails.
RECURSIVE move_files_to_original_paths(_, _, _, _, _)
move_files_to_original_paths(temp, tree, metadata, i, fault) ==
    IF i > Len(metadata) THEN [result |-> "Ok", temp |-> temp, tree |-> tree]
    ELSE LET orig == metadata[i][1]
             rel == metadata[i][2]
         IN  IF temp[rel] = Absent
             THEN move_files_to_original_paths(temp, tree, metadata, i + 1, fault)
             ELSE IF tree[orig] # Absent /\ fault = <<"remove", i>>
             THEN [result |-> "Err", temp |-> temp, tree |-> tree]
             ELSE IF fault = <<"rename", i>>
             THEN [result |-> "Err", temp |-> temp,
                   tree |-> [tree EXCEPT ![orig] = Absent]]
             ELSE move_files_to_original_paths(
                      [temp EXCEPT ![rel] = Absent],
                      [tree EXCEPT ![orig] = temp[rel]],
                      metadata, i + 1, fault)

rollback(archive, temp, tree, fault) ==
    LET e == extract_tar_to_temp(archive, temp, fault # <<"open", 0>>)
    IN  IF e.result # "Ok"
        THEN [result |-> "Err_RollbackFailed", temp |-> e.temp, tree |-> tree]
        ELSE LET m == move_files_to_original_paths(e.temp, tree, archive.metadata, 1, fault)
             IN  [result |-> IF m.result = "Ok" THEN "Ok" ELSE "Err_RollbackFailed",
                  temp |-> m.temp, tree |-> m.tree]

\* the call of a Rollback run that fails, if any
RollbackFaults ==
    {<<f, 0>> : f \in {"none", "open", "read", "fork", "write"}}
    \cup ({"remove", "rename"} \X (1..Len(get_paths_to_backup)))

\* -------------------------------------------- Rollback handler (rollback/mod.rs)
rollback_execute(ri, running, archives, temp, tree, fault, pid) ==
    LET latest_backup == get_latest_backup(archives)
        backup_file == CHOOSE a \in latest_backup : TRUE
        r == rollback(backup_file, temp, tree, fault)
        kept == RemoveStopped(ri, running)
        agent_processes == filter_process_infos(kept, "Agent")
        l == launch_agent(fault # <<"fork", 0>>, pid)
    IN  IF latest_backup = {}
        THEN [result |-> "Err_BackupNotFound", info |-> ri, temp |-> temp, tree |-> tree,
              launched |-> {}]
        ELSE IF r.result # "Ok"
        THEN [result |-> r.result, info |-> ri, temp |-> r.temp, tree |-> r.tree,
              launched |-> {}]
        ELSE IF fault = <<"read", 0>>
        THEN [result |-> "Err_RuntimeInfo", info |-> ri, temp |-> r.temp, tree |-> r.tree,
              launched |-> {}]
        ELSE IF Len(agent_processes) # 0
        THEN [result |-> "Ok", info |-> kept, temp |-> r.temp, tree |-> r.tree,
              launched |-> {}]
        ELSE IF l.result # "Ok"
        THEN [result |-> l.result, info |-> kept, temp |-> r.temp, tree |-> r.tree,
              launched |-> {}]
        ELSE IF fault = <<"write", 0>>
        THEN [result |-> "Err_RuntimeInfo", info |-> kept, temp |-> r.temp, tree |-> r.tree,
              launched |-> {pid}]
        ELSE [result |-> "Ok", info |-> add_process_info(kept, l.process_info),
              temp |-> r.temp, tree |-> r.tree, launched |-> {pid}]

\* ------------------------------------------ artifact verifier (sigstore.rs)
MaxChain == 2

\* What a verification run meets: the files, the .sigstore directory, the
\* trust-root download, the bundle and its certificate chain, the blob signature.
VerifyInputs ==
    [blob_read_ok : BOOLEAN, bundle_read_ok : BOOLEAN,
     dir_exists : BOOLEAN, rm_ok : BOOLEAN, tuf_ok : BOOLEAN,
     rekor_ok : BOOLEAN, n_rekor : 0..1, der_ok : BOOLEAN,
     bundle_ok : BOOLEAN, cert_parse_ok : BOOLEAN, chain_len : 0..MaxChain,
     identity_ok : BOOLEAN, issuer_ok : BOOLEAN, blob_sig_ok : BOOLEAN]

\* TrustRootDownloader::get: the directory is removed (a failure to remove it is
\* ignored), created anew (which fails if it is still there) and filled from
\* the remote.
TrustRootDownloader_get(in) ==
    LET still_there == in.dir_exists /\ ~in.rm_ok
    IN  IF still_there THEN [result |-> "Err_CreateSigstoreDirError", dir |-> TRUE]
        ELSE IF ~in.tuf_ok THEN [result |-> "Err_DownloadFailed", dir |-> TRUE]
        ELSE [result |-> "Ok", dir |-> TRUE]

\* id_policy.verify(&certificate_chain[0]).expect("Failed to verify"):
\* "Panic" when the chain is empty (index out of bounds) or the policy rejects.
policy_check_ignored(in) == "Ok"

policy_check(in) ==
    IF in.chain_len = 0 THEN "Panic"
    ELSE IF ~(in.identity_ok /\ in.issuer_ok) THEN "Panic"
    ELSE "Ok"

BundleVerifier_verify(in) ==
    LET t == TrustRootDownloader_get(in)
    IN  IF ~in.blob_read_ok \/ ~in.bundle_read_ok THEN "Err_ReadFileError"
        ELSE IF t.result # "Ok" THEN t.result
        ELSE IF ~in.rekor_ok THEN "Err_TufMetadataError"
        ELSE IF in.n_rekor = 0 THEN "Err_RekorKeyEmpty"
        ELSE IF ~in.der_ok THEN "Err_CastDerCertificate"
        ELSE IF ~in.bundle_ok THEN "Err_VerifyBundleFailed"
        ELSE IF ~in.cert_parse_ok THEN "Err_X509CertError"
        ELSE IF policy_check(in) # "Ok" THEN policy_check(in)
        ELSE IF ~in.blob_sig_ok THEN "Err_VerifyFailed"
        ELSE "Ok"

VerifyErrors ==
    {"Err_ReadFileError", "Err_CreateSigstoreDirError", "Err_DownloadFailed",
     "Err_TufMetadataError", "Err_RekorKeyEmpty", "Err_CastDerCertificate",
     "Err_VerifyBundleFailed", "Err_X509CertError", "Err_VerifyFailed"}

\* the verification runs the update meets: everything in order, or one thing wrong
VerifyAllOk ==
    [blob_read_ok |-> TRUE, bundle_read_ok |-> TRUE, dir_exists |-> FALSE, rm_ok |-> TRUE,
     tuf_ok |-> TRUE, rekor_ok |-> TRUE, n_rekor |-> 1, der_ok |-> TRUE, bundle_ok |-> TRUE,
     cert_parse_ok |-> TRUE, chain_len |-> 1, identity_ok |-> TRUE, issuer_ok |-> TRUE,
     blob_sig_ok |-> TRUE]

VerifyCases ==
    {VerifyAllOk}
    \cup {[VerifyAllOk EXCEPT ![f] = FALSE] :
            f \in {"blob_read_ok", "bundle_read_ok", "tuf_ok", "rekor_ok", "der_ok",
                   "bundle_ok", "cert_parse_ok", "identity_ok", "issuer_ok", "blob_sig_ok"}}
    \cup {[VerifyAllOk EXCEPT !.n_rekor = 0], [VerifyAllOk EXCEPT !.chain_len = 0],
          [VerifyAllOk EXCEPT !.dir_exists = TRUE],
          [VerifyAllOk EXCEPT !.dir_exists = TRUE, !.rm_ok = FALSE]}

\* ------------------------------------------------ update (handler.rs, resource.rs)
\* the entries of the downloaded zip archive, in archive order
ZipEntries == <<"bundle.json", "agent", "update.yml">>

\* extract_zip: for i in 0..archive.len(), each entry written under output_path;
\* zip_ok: ZipArchive::new succeeds; fail_entry = k > 0: writing entry k fails.
extract_zip(zip_ok, fail_entry) ==
    IF ~zip_ok THEN [result |-> "Err_Resource", extracted |-> {}]
    ELSE IF fail_entry > 0
    THEN [result |-> "Err_Resource",
          extracted |-> {ZipEntries[i] : i \in 1..(fail_entry - 1)}]
    ELSE [result |-> "Ok", extracted |-> {ZipEntries[i] : i \in 1..Len(ZipEntries)}]

\* a download that stores the archive without extracting it
download_only(fetch_ok, zip_ok, fail_entry) ==
    IF ~fetch_ok THEN [result |-> "Err_Resource", fetched |-> FALSE, extracted |-> {}]
    ELSE [result |-> "Ok", fetched |-> TRUE, extracted |-> {}]

\* download_update_resources: reqwest::get, response.bytes(), then extract_zip
download_update_resources(fetch_ok, zip_ok, fail_entry) ==
    IF ~fetch_ok THEN [result |-> "Err_Resource", fetched |-> FALSE, extracted |-> {}]
    ELSE LET x == extract_zip(zip_ok, fail_entry)
         IN  [result |-> x.result, fetched |-> TRUE, extracted |-> x.extracted]

\* UpdateError::requires_rollback (state/update is not part of the sources)
requires_rollback(update_error) == update_error # "BackupFailed"

\* a handler that moves to Rollback whatever the error
handle_update_failed_always(ri, update_error, wr_ok) ==
    IF wr_ok
    THEN [result |-> "Err_Update", error |-> update_error,
          info |-> update_state(ri, "Rollback")]
    ELSE [result |-> "Err_RuntimeInfo", error |-> "none", info |-> ri]

\* StateHandler::handle_update_failed; wr_ok: update_state(State::Rollback) succeeds
handle_update_failed(ri, update_error, wr_ok) ==
    IF requires_rollback(update_error)
    THEN IF wr_ok
         THEN [result |-> "Err_Update", error |-> update_error,
               info |-> update_state(ri, "Rollback")]
         ELSE [result |-> "Err_RuntimeInfo", error |-> "none", info |-> ri]
    ELSE [result |-> "Err_Update", error |-> update_error, info |-> ri]

\* terminate_agent: kill(pid, SIGTERM) fails when there is no such process
terminate_agent(process_id, running) ==
    IF process_id \in running THEN "Ok" ELSE "Err_Agent"

\* --------------------------------------- the runtime state file (runtime.rs)
Chunks == 2
Threads == {1, 2}

\* serde_json::to_string(self) as the pieces write_all hands to write()
to_chunks(info) == [i \in 1..Chunks |-> [of |-> info, idx |-> i]]

\* what a write leaves where the file was shorter than the write position
Hole == [of |-> RuntimeInfo_default, idx |-> 0]

\* serde_json::from_str: only a complete document of one RuntimeInfo parses
from_chunks(bytes) ==
    IF Len(bytes) = Chunks /\ \A i \in 1..Chunks : bytes[i] = [of |-> bytes[1].of, idx |-> i]
    THEN [ok |-> TRUE, info |-> bytes[1].of]
    ELSE [ok |-> FALSE, info |-> RuntimeInfo_default]

\* RuntimeInfo::read: open, read_to_string, from_str (no lock is taken)
RuntimeInfo_read(bytes) == from_chunks(bytes)

\* write() of one piece at position off + 1 of the open file description
write_at(bytes, off, piece) ==
    [i \in 1..(IF off + 1 > Len(bytes) THEN off + 1 ELSE Len(bytes)) |->
        IF i = off + 1 THEN piece
        ELSE IF i <= Len(bytes) THEN bytes[i]
        ELSE Hole]

ThreadIdle == [pc |-> "idle", info |-> RuntimeInfo_default, off |-> 0]

\* ---------------------------------------------------------------- state
NoUpdate == [pc |-> "idle", fetched |-> FALSE, extracted |-> {}, verified |-> FALSE,
             version |-> 0]
NoRun == [op |-> "none"]

\* the record of a handle run: what it saw, did and returned
Run(op, r, latest, read_ok) ==
    [op |-> op, result |-> r.result, pre_info |-> runtime_info, pre_alive |-> alive,
     launched |-> r.launched, read_ok |-> read_ok, latest |-> latest,
     failed |-> "none", error |-> "none", pre_fs |-> fs,
     again |-> (op = "Rollback" /\ last.op = "Rollback" /\ last.result = "Ok"
                /\ last.latest = latest)]

CtlInit ==
    /\ runtime_info = RuntimeInfo_default
    /\ alive = {}
    /\ next_pid = 1
    /\ fs = [p \in AbsPaths |->
                IF p = Exe THEN File(1) ELSE Dir({<<"config.json", 1>>})]
    /\ backups = {}
    /\ restore_temp = [r \in RelPaths |-> Absent]
    /\ clock = 0
    /\ upd = NoUpdate
    /\ last = NoRun

VerIdle == vin = VerifyAllOk /\ vout = "none"

ConcIdle ==
    /\ file = to_chunks(RuntimeInfo_default)
    /\ flock = 0
    /\ th = [t \in Threads |-> ThreadIdle]

\* ------------------------------------- keyring (keypair.rs, mnemonic.rs)
\* what a keystore entry holds when nothing was written to it (read gives None)
NoKey == 0

\* the entries KeyPairingWithConfig::save writes, in its order: the five keys,
\* then save_did and save_is_initialized
KeyPairingEntries ==
    <<"sign", "sign_cbor", "update", "recovery", "encrypt", "did", "is_initialized">>

\* the entries MnemonicKeyring::save writes, in its order, then the DID
MnemonicEntries == <<"sign", "update", "recovery", "encrypt", "did">>

EntriesOf(strategy) ==
    IF strategy = "keypair" THEN KeyPairingEntries ELSE MnemonicEntries

WrittenBy(strategy) ==
    {EntriesOf(strategy)[i] : i \in 1..Len(EntriesOf(strategy))}

\* the writes of a save, one after the other, from write i on; stop_at = k: the
\* k-th write fails (panic!()) or the process stops before it, and nothing
\* undoes the writes made before.
RECURSIVE write_entries(_, _, _, _, _)
write_entries(entries, order, keyring, i, stop_at) ==
    IF i > Len(order) \/ i = stop_at THEN entries
    ELSE write_entries([entries EXCEPT ![order[i]] = keyring], order, keyring,
                       i + 1, stop_at)

\* KeyPairingWithConfig::save(did)
KeyPairingWithConfig_save(entries, keyring, stop_at) ==
    write_entries(entries, KeyPairingEntries, keyring, 1, stop_at)

\* MnemonicKeyring::save(did)
MnemonicKeyring_save(entries, keyring, stop_at) ==
    write_entries(entries, MnemonicEntries, keyring, 1, stop_at)

\* a load that does not look at the encryption key
load_keyring_without_encrypt(entries) ==
    IF \E k \in {"sign", "sign_cbor", "update", "recovery"} : entries[k] = NoKey
    THEN [result |-> "Err_KeyNotFound", keys |-> {}]
    ELSE [result |-> "Ok",
          keys |-> {<<k, entries[k]>> : k \in {"sign", "sign_cbor", "update", "recovery",
                                                "encrypt"}}]

\* KeyPairingWithConfig::load_keyring: read_sign, read_sign_cbor, read_update,
\* read_recovery, read_encrypt, each .ok_or(KeyNotFound)?
load_keyring(entries) ==
    IF entries["sign"] = NoKey THEN [result |-> "Err_KeyNotFound", keys |-> {}]
    ELSE IF entries["sign_cbor"] = NoKey THEN [result |-> "Err_KeyNotFound", keys |-> {}]
    ELSE IF entries["update"] = NoKey THEN [result |-> "Err_KeyNotFound", keys |-> {}]
    ELSE IF entries["recovery"] = NoKey THEN [result |-> "Err_KeyNotFound", keys |-> {}]
    ELSE IF entries["encrypt"] = NoKey THEN [result |-> "Err_KeyNotFound", keys |-> {}]
    ELSE [result |-> "Ok",
          keys |-> {<<k, entries[k]>> : k \in {"sign", "sign_cbor", "update", "recovery",
                                                "encrypt"}}]

\* a device on which no keyring was saved yet
NoKeystore(strategy) ==
    [strategy |-> strategy,
     entries |-> [k \in {KeyPairingEntries[i] : i \in 1..Len(KeyPairingEntries)} |-> NoKey]]

NoKeyRun == [op |-> "none"]

KeyIdle == keystore = NoKeystore("keypair") /\ key_run = NoKeyRun

\* KeyPairingWithConfig::get_identifier: the DID of the configuration
get_identifier(entries) ==
    IF entries["did"] = NoKey THEN [result |-> "Err_DidNotFound", did |-> NoKey]
    ELSE [result |-> "Ok", did |-> entries["did"]]

\* what the resolver answers to find_identifier(did), and what it answers to
\* create_identifier(keyring)
FindResponses == {"Some", "None", "Err"}

CreateResponses == {"Ok", "Err"}

\* create_identifier with the new keyring saved before it is published
create_identifier_save_first(entries, fresh, find, create, stop_at) ==
    LET found == /\ load_keyring(entries).result = "Ok"
                 /\ get_identifier(entries).result = "Ok"
        did == get_identifier(entries).did
        saved == KeyPairingWithConfig_save(entries, fresh, stop_at)
    IN  IF found /\ find = "Err"
        THEN [entries |-> entries, result |-> "Err_find_identifier",
              document |-> NoKey, created |-> FALSE]
        ELSE IF found /\ find = "Some"
        THEN [entries |-> entries, result |-> "Ok", document |-> did,
              created |-> FALSE]
        ELSE IF create = "Err"
        THEN [entries |-> saved, result |-> "Err_create_identifier",
              document |-> NoKey, created |-> TRUE]
        ELSE [entries |-> saved,
              result |-> IF stop_at = 0 THEN "Ok" ELSE "panicked",
              document |-> IF stop_at = 0 THEN fresh ELSE NoKey,
              created |-> TRUE]

\* NodeX::create_identifier. fresh: the keyring create_keyring would make;
\* find, create: the resolver's answers; stop_at: where save stops. The DID
\* the resolver registers for a keyring is named by the keyring.
create_identifier(entries, fresh, find, create, stop_at) ==
    LET found == /\ load_keyring(entries).result = "Ok"
                 /\ get_identifier(entries).result = "Ok"
        did == get_identifier(entries).did
    IN  IF found /\ find = "Err"
        THEN [entries |-> entries, result |-> "Err_find_identifier",
              document |-> NoKey, created |-> FALSE]
        ELSE IF found /\ find = "Some"
        THEN [entries |-> entries, result |-> "Ok", document |-> did,
              created |-> FALSE]
        ELSE IF create = "Err"
        THEN [entries |-> entries, result |-> "Err_create_identifier",
              document |-> NoKey, created |-> TRUE]
        ELSE [entries |-> KeyPairingWithConfig_save(entries, fresh, stop_at),
              result |-> IF stop_at = 0 THEN "Ok" ELSE "panicked",
              document |-> IF stop_at = 0 THEN fresh ELSE NoKey,
              created |-> TRUE]

\* ------------------------------------------ COSE signing (cbor/signature.rs)
\* the clock's resolution: ticks in a second
TicksPerSec == 2
\* Duration::from_secs(3600)
TokenLifetime == 3600

\* Token::new(did): exp = Utc::now() + 3600 s
Token_new(did, now) == [did |-> did, exp |-> now + TokenLifetime * TicksPerSec]

\* #[serde(with = "ts_seconds")]: exp is written as whole seconds
ts_seconds(t) == t \div TicksPerSec

\* ts_seconds read back as a DateTime<Utc>
from_ts_seconds(secs) == secs * TicksPerSec

\* sign_message: the WithToken is serialized as it is given and signed;
\* fault: the step that fails ("cbor", "signature", "cose"), if any
sign_message(key, message, fault) ==
    IF fault = "cbor" THEN [result |-> "Err_Cbor", data |-> <<>>]
    ELSE IF fault = "signature" THEN [result |-> "Err_Signature", data |-> <<>>]
    ELSE IF fault = "cose" THEN [result |-> "Err_Cose", data |-> <<>>]
    ELSE [result |-> "Ok",
          data |-> <<[did |-> message.token.did, exp |-> ts_seconds(message.token.exp),
                      inner |-> message.inner, signed_by |-> key]>>]

\* the expiry test of verify_message: message.token.exp < Utc::now()
is_expired(exp, now) == exp < now

\* verify_message with the signature verified before the expiry is tested
verify_message_signature_first(data, now, faults) ==
    LET exp == from_ts_seconds(data.exp)
    IN  IF "cose" \in faults THEN "Err_Cose"
        ELSE IF "payload" \in faults THEN "Err_PayloadEmpty"
        ELSE IF "cbor" \in faults THEN "Err_Cbor"
        ELSE IF "repository" \in faults THEN "Err_GetDidDocument"
        ELSE IF "no_document" \in faults THEN "Err_NotFoundPubkey"
        ELSE IF "no_key" \in faults THEN "Err_NotFoundPubkey"
        ELSE IF "jwk" \in faults THEN "Err_GetPubkey"
        ELSE IF "sig_len" \in faults THEN "Err_VecToArray"
        ELSE IF data.signed_by # data.did THEN "Err_Signature"
        ELSE IF is_expired(exp, now) THEN "Err_Expired"
        ELSE "Ok"

\* verify_message; faults: the steps that fail, when they are reached, for a
\* reason other than the token's expiry or the signature
verify_message(data, now, faults) ==
    LET exp == from_ts_seconds(data.exp)
    IN  IF "cose" \in faults THEN "Err_Cose"
        ELSE IF "payload" \in faults THEN "Err_PayloadEmpty"
        ELSE IF "cbor" \in faults THEN "Err_Cbor"
        ELSE IF "repository" \in faults THEN "Err_GetDidDocument"
        ELSE IF "no_document" \in faults THEN "Err_NotFoundPubkey"
        ELSE IF "no_key" \in faults THEN "Err_NotFoundPubkey"
        ELSE IF "jwk" \in faults THEN "Err_GetPubkey"
        ELSE IF is_expired(exp, now) THEN "Err_Expired"
        ELSE IF "sig_len" \in faults THEN "Err_VecToArray"
        ELSE IF data.signed_by # data.did THEN "Err_Signature"
        ELSE "Ok"

SignFaults == {"none", "cbor", "signature", "cose"}

VerifyMessageFaults ==
    {"none", "cose", "payload", "cbor", "repository", "no_document", "no_key", "jwk",
     "sig_len"}

Dids == {"did:a", "did:b"}

CoseIdle ==
    /\ utc_now = 0
    /\ advanced = 0
    /\ token = <<>>
    /\ sign1 = <<>>
    /\ cose_out = [result |-> "none"]

\* ------------------- verifiable messages (usecase/verifiable_message_usecase.rs)
\* the longest message payload
MaxLen == 2
\* the message ids Uuid::new_v4() draws from
MaxMsgId == 2

Quote == "\""
Backslash == "\\"
\* the characters of a payload: one plain, and the two JSON escapes
MsgChars == {"a", Quote, Backslash}
Payloads == UNION {[1..n -> MsgChars] : n \in 0..MaxLen}

\* how serde_json writes one character of a string
escape_char(c) ==
    IF c = Quote THEN <<Backslash, Quote>>
    ELSE IF c = Backslash THEN <<Backslash, Backslash>>
    ELSE <<c>>

RECURSIVE format_escaped_str_contents(_, _)
format_escaped_str_contents(s, i) ==
    IF i > Len(s) THEN <<>>
    ELSE escape_char(s[i]) \o format_escaped_str_contents(s, i + 1)

\* a string without its escapes, as no serializer writes it
to_json_string_unescaped(s) == <<Quote>> \o s \o <<Quote>>

\* serde_json::to_string of a String: quoted, with its escapes
to_json_string(s) == <<Quote>> \o format_escaped_str_contents(s, 1) \o <<Quote>>

\* serde_json's string parser from position i: up to the closing quote, which
\* must be the last character
RECURSIVE parse_str(_, _, _)
parse_str(t, i, acc) ==
    IF i > Len(t) THEN [ok |-> FALSE, value |-> <<>>]
    ELSE IF t[i] = Quote
        THEN IF i = Len(t) THEN [ok |-> TRUE, value |-> acc]
             ELSE [ok |-> FALSE, value |-> <<>>]
    ELSE IF t[i] = Backslash
        THEN IF i + 1 <= Len(t) /\ t[i + 1] \in {Quote, Backslash}
             THEN parse_str(t, i + 2, Append(acc, t[i + 1]))
             ELSE [ok |-> FALSE, value |-> <<>>]
    ELSE parse_str(t, i + 1, Append(acc, t[i]))

\* serde_json::from_str of a string
from_json_string(t) ==
    IF Len(t) = 0 \/ t[1] # Quote THEN [ok |-> FALSE, value |-> <<>>]
    ELSE parse_str(t, 2, <<>>)

MyDid == "did:a"

\* EncodedMessage
EncodedMessage(message_id, payload, destination_did, created_at, project_hmac) ==
    [shape |-> "EncodedMessage", message_id |-> message_id, payload |-> payload,
     destination_did |-> destination_did, created_at |-> created_at,
     project_hmac |-> project_hmac]

\* the key ids a DID document lists
KeyIds == {"#signingKey", "#encryptionKey"}

\* the document minus proof, which the proof signs
unsigned(model) ==
    [issuer |-> model.issuer, container |-> model.container,
     expiration_date |-> model.expiration_date]

\* CredentialSigner::sign: a proof by key over the document minus proof
CredentialSigner_sign(model, key) ==
    [issuer |-> model.issuer, container |-> model.container,
     expiration_date |-> model.expiration_date,
     proof |-> [signed_by |-> key, over |-> unsigned(model)]]

\* CredentialSigner::verify: the proof is by key and over this document
CredentialSigner_verify(model, key) ==
    model.proof.signed_by = key /\ model.proof.over = unsigned(model)

\* DIDVCService::generate: the container in a credential issued by did,
\* without expiration_date, signed with the keyring's signing key
vc_generate(did, keyring, container) ==
    CredentialSigner_sign(
        [issuer |-> did, container |-> container, expiration_date |-> <<>>], keyring)

\* the document create_identifier registers for did: its signing key alone
document_of(did) == <<<<[id |-> "#signingKey", key |-> did]>>>>

\* what find_identifier answers: an error, or a document whose public_key is
\* None (<<>>) or Some(keys) (<<keys>>)
Resolution(ok, public_key) == [ok |-> ok, public_key |-> public_key]

VcVerifyFaults == {"none", "from_value", "from_jwk", "signer"}

\* DIDVCService::verify of model when the issuer resolves as resolution says;
\* fault: the step that fails for a reason other than the document's keys or
\* the signature, if any
DIDVCService_verify(model, resolution, fault) ==
    LET public_keys == resolution.public_key[1]
    IN  IF fault = "from_value" THEN "Err_from_value"
        ELSE IF ~resolution.ok THEN "Err_find_identifier"
        ELSE IF resolution.public_key = <<>> THEN "Err_public_key_not_found"
        ELSE IF Len(public_keys) # 1 THEN "Err_public_keys_length"
        ELSE IF fault = "from_jwk" THEN "Err_from_jwk"
        ELSE IF fault = "signer" THEN "Err_verify_credential"
        ELSE IF ~CredentialSigner_verify(model, public_keys[1].key)
            THEN "Err_not_verified"
        ELSE "Ok"

\* DIDVCService::verify as the use case meets it: the issuer's document is
\* found or not
vc_verify(vc, resolved) ==
    DIDVCService_verify(vc, Resolution(resolved, document_of(vc.issuer)), "none") = "Ok"

\* no credential has been issued or verified
NoVcRun ==
    [op |-> "none", result |-> "none", model |-> <<>>,
     resolution |-> Resolution(FALSE, <<>>), fault |-> "none", now |-> 0]

VcIdle ==
    /\ vc_in = <<>>
    /\ vc_run = NoVcRun

\* ------------------------------------------- error codes (agent/src/errors.rs)
\* enum AgentErrorCode: the variants and their discriminants
AgentErrorCode ==
    [VersionNoBinaryUrl |-> 1001,
     VersionNoPath |-> 1002,
     CreateDidCommMessageNoPubKey |-> 1003,
     VerifyDidcommMessageNoSender |-> 1005,
     VerifyDidcommMessageNoPublicKey |-> 1004,
     VerifyDidcommMessageNoMetadata |-> 1006,
     VerifyVerifiableMessageNoPublicKey |-> 1007,
     VerifyDidcommMessageNotAddressedToMe |-> 2001,
     VerifyVerifiableMessageNotAddressedToMe |-> 2002,
     CreateDidCommMessageVerifyFailed |-> 3001,
     VerifyDidcommMessageVerifyFailed |-> 3002,
     VerifyVerifiableMessageVerifyFailed |-> 3003,
     CreateDidCommMessageNoDid |-> 4001,
     CreateVerifiableMessageNoDestination |-> 4002,
     VerifyDidcommMessageNoTargetDid |-> 4003,
     VerifyVerifiableMessageNoIdentifier |-> 4004,
     VerifyVerifiableMessageNoTargetDid |-> 4005,
     NetworkInternal |-> 5001,
     VersionInternal |-> 5002,
     CreateDidcommMessageInternal |-> 5003,
     CreateIdentifierInternal |-> 5004,
     CreateVerifiableMessageInternal |-> 5005,
     FindIdentifierInternal |-> 5006,
     VerifyDidcommMessageInternal |-> 5007,
     VerifyVerifiableMessageInternal |-> 5008]

\* error.code as u16
as_u16(variant) == AgentErrorCode[variant] % 65536

\* a status that tells 3xxx from nothing: every error is a 400
http_status_always_400(code) == 400

\* impl From<AgentError> for HttpResponse: the status for a code
http_status(code) ==
    IF 1000 <= code /\ code < 2000 THEN 400
    ELSE IF 2000 <= code /\ code < 3000 THEN 403
    ELSE IF 3000 <= code /\ code < 4000 THEN 401
    ELSE IF 4000 <= code /\ code < 5000 THEN 404
    ELSE 500

\* create_agent_error(code): the code and the status of the response
create_agent_error(variant) ==
    [variant |-> variant, code |-> <<as_u16(variant)>>,
     status |-> <<http_status(as_u16(variant))>>]

\* what DidcommMessageUseCase::verify returns to the handler
VerifyDidcommOutcomes ==
    {"Ok", "MessageActivity", "NotAddressedToMe", "FindSender", "DidPublicKeyNotFound",
     "MetadataBodyNotFound", "VcService", "DidDocNotFound", "U::Json", "S::Json",
     "DecryptFailed", "SidetreeFindRequestFailed"}

\* a handler that tells no failure from another
handler_error_always_internal(e) == "VerifyDidcommMessageInternal"

\* the match of the verify-didcomm-message handler on the use case's error
handler_error(e) ==
    IF e = "MessageActivity" THEN "handle_status"
    ELSE IF e = "NotAddressedToMe" THEN "VerifyDidcommMessageNotAddressedToMe"
    ELSE IF e = "FindSender" THEN "VerifyDidcommMessageNoSender"
    ELSE IF e = "DidPublicKeyNotFound" THEN "VerifyDidcommMessageNoPublicKey"
    ELSE IF e = "MetadataBodyNotFound" THEN "VerifyDidcommMessageNoMetadata"
    ELSE IF e = "VcService" THEN "VerifyDidcommMessageVerifyFailed"
    ELSE IF e = "DidDocNotFound" THEN "VerifyDidcommMessageNoTargetDid"
    ELSE IF e \in {"U::Json", "S::Json"} THEN "VerifyDidcommMessageInternal"
    ELSE IF e = "DecryptFailed" THEN "VerifyDidcommMessageInternal"
    ELSE "VerifyDidcommMessageInternal"

\* the response for a variant: code and status where errors.rs defines the
\* variant, none (<<>>) where it does not
error_response(variant) ==
    IF variant \in DOMAIN AgentErrorCode THEN create_agent_error(variant)
    ELSE [variant |-> variant, code |-> <<>>, status |-> <<>>]

\* the verify-didcomm-message handler: the body parses as a DidCommMessage or
\* not, and the use case returns outcome
handler(parses, outcome) ==
    IF ~parses THEN error_response("VerifyDidcommMessageJsonError")
    ELSE IF outcome = "Ok" THEN [variant |-> "Ok", code |-> <<>>, status |-> <<200>>]
    ELSE error_response(handler_error(outcome))

ErrIdle == responses = <<>>

\* -------------------------------- the listening socket (managers/agent.rs)
\* the highest descriptor number of the controller
MaxFd == 5
\* static DEFAULT_FD: RawFd = 3
DEFAULT_FD == 3
\* the descriptors above stdin, stdout and stderr
Fds == DEFAULT_FD..MaxFd

\* the lowest descriptor that is not open (0: every descriptor is open)
lowest_free(table) ==
    IF \A f \in Fds : table[f] # "closed" THEN 0
    ELSE CHOOSE f \in Fds :
            /\ table[f] = "closed"
            /\ \A g \in Fds : g < f => table[g] # "closed"

\* dup(fd): the lowest free descriptor now refers to what fd refers to
dup(table, fd) ==
    IF fd \notin Fds \/ table[fd] = "closed" \/ lowest_free(table) = 0
    THEN [ok |-> FALSE, fd |-> 0, table |-> table]
    ELSE [ok |-> TRUE, fd |-> lowest_free(table),
          table |-> [table EXCEPT ![lowest_free(table)] = table[fd]]]

NewFaults ==
    {"none", "listen_fds", "listen_pid", "pid_mismatch", "no_fds", "remove", "bind"}

\* get_fd_from_systemd: descriptor 3 as systemd passed it
get_fd_from_systemd(table, fault) ==
    IF fault = "listen_fds" THEN [result |-> "ListenFdsError", table |-> table]
    ELSE IF fault = "listen_pid" THEN [result |-> "ListenPidError", table |-> table]
    ELSE IF fault = "pid_mismatch" THEN [result |-> "ListenPidMismatch", table |-> table]
    ELSE IF fault = "no_fds" THEN [result |-> "NoFileDescriptors", table |-> table]
    ELSE [result |-> "Ok", table |-> table, listener_fd |-> DEFAULT_FD, listener |-> 0]

\* duplicate_fd(listener_fd_str): the descriptor named by LISTENER_FD is
\* duplicated (0: the variable does not parse)
duplicate_fd(table, listener_fd) ==
    LET d == dup(table, listener_fd)
    IN  IF listener_fd = 0 THEN [result |-> "ListenerFdParseError", table |-> table]
        ELSE IF ~d.ok THEN [result |-> "DuplicateFdError", table |-> table]
        ELSE [result |-> "Ok", table |-> d.table, listener_fd |-> d.fd,
              listener |-> d.fd]

\* bind_new_uds: a file that exists at uds_path is removed, a new socket is
\* bound there and its descriptor duplicated
bind_new_uds(table, uds_exists, fault) ==
    LET a == lowest_free(table)
        bound == [table EXCEPT ![a] = "listener"]
        d == dup(bound, a)
    IN  IF uds_exists /\ fault = "remove"
        THEN [result |-> "BindUdsError", table |-> table, removed |-> FALSE]
        ELSE IF fault = "bind" \/ a = 0
        THEN [result |-> "BindUdsError", table |-> table, removed |-> uds_exists]
        ELSE IF ~d.ok
        THEN [result |-> "DuplicateFdError", table |-> table, removed |-> uds_exists]
        ELSE [result |-> "Ok", table |-> d.table, listener_fd |-> d.fd, listener |-> a,
              removed |-> uds_exists]

\* what the process finds when it starts: whether systemd's socket activation
\* is detected, whether LISTENER_FD is set and to what (0 for a text that is
\* no number), and whether a file exists at uds_path
Environments ==
    {env \in [systemd : BOOLEAN, listener_fd_set : BOOLEAN,
              listener_fd : {0} \cup Fds, uds_exists : BOOLEAN] :
        ~env.listener_fd_set => env.listener_fd = 0}

\* the branch of setup_listener with LISTENER_FD looked at before systemd
startup_path_listener_fd_first(env) ==
    IF env.listener_fd_set THEN "listener_fd"
    ELSE IF env.systemd THEN "systemd"
    ELSE "bind"

\* the branch setup_listener takes
startup_path(env) ==
    IF env.systemd THEN "systemd"
    ELSE IF env.listener_fd_set THEN "listener_fd"
    ELSE "bind"

\* setup_listener: by systemd's socket activation, by LISTENER_FD, or by a
\* socket of its own
setup_listener(table, env, fault) ==
    LET path == startup_path(env)
    IN  [path |-> path] @@
        (IF path = "systemd" THEN get_fd_from_systemd(table, fault)
         ELSE IF path = "listener_fd" THEN duplicate_fd(table, env.listener_fd)
         ELSE bind_new_uds(table, env.uds_exists, fault))

\* LISTENER_FD of a child that is handed systemd's descriptor number whatever
\* the manager holds
child_listener_fd_default(manager) == DEFAULT_FD

\* std::env::set_var("LISTENER_FD", self.listener_fd.to_string())
child_listener_fd(manager) == manager.listener_fd

NoProc == [state |-> "none", listener_fd |-> 0, socket |-> "closed"]

NoAgRun == [op |-> "none", result |-> "none", pid |-> 0]

AgentIdle ==
    /\ fd_table = [f \in Fds |-> "closed"]
    /\ mgr = <<>>
    /\ procs = [p \in 1..MaxPid |-> NoProc]
    /\ ag_run = NoAgRun

\* ------------------------------- metric sender (usecase/metric_sender_usecase.rs)
\* MetricInmemoryStoreRepository::set: the metrics are pushed
inmemory_set(metrics, new) == metrics \o new

\* MetricInmemoryStoreRepository::flush
inmemory_flush(metrics) == <<>>

\* MetricFileStoreRepository::set: the file is written anew with the metrics
file_set(content, metrics) == metrics

\* `let _ = self.send_repository.send(metrics);`: send is an async fn and the
\* future it returns is dropped without being polled, so its body never runs
\* and nothing is added to what has been transmitted
send_unawaited(transmitted, metrics) == transmitted

\* start_send has not been polled: empty stores, an empty channel, a select!
\* whose sleep has not elapsed, no shutdown notified
MetricIdle ==
    /\ stores = [inmemory |-> <<>>, file |-> <<>>, transmitted |-> <<>>]
    /\ channel = <<>>
    /\ sender = [pc |-> "select", notified |-> FALSE, elapsed |-> FALSE,
                 held |-> <<>>, produced |-> 0, since_notified |-> {}]

\* ------------------------------- working directory (managers/resource.rs)
\* the names the working directory can hold, as the components a '.' separates
BackupNames == {<<"nodex_backup_1", "tar", "gz">>, <<"nodex_backup_2", "tar", "gz">>}

DirNames == BackupNames \cup {<<"notes", "gz">>, <<"bundle", "yml">>}

\* Path::extension: what follows the last '.', if the name has one
extension(name) == IF Len(name) > 1 THEN name[Len(name)] ELSE "none"

\* a .tar.gz archive: a regular file whose name ends in .tar.gz
is_backup_archive(dir, name) ==
    /\ dir[name].kind = "file"
    /\ Len(name) > 2
    /\ name[Len(name) - 1] = "tar"
    /\ name[Len(name)] = "gz"

\* the key of max_by_key: the modification time, UNIX_EPOCH when the metadata
\* cannot be read
modified(dir, name, meta_fails) == IF name = meta_fails THEN 0 ELSE dir[name].mtime

\* ResourceManagerTrait::get_latest_backup: the paths it may return (the
\* order of read_dir decides among entries of equal key), {} for None
get_latest_backup_in(dir, read_ok, meta_fails) ==
    LET candidates == {n \in DOMAIN dir :
                          dir[n].kind = "file" /\ extension(n) = "gz"}
    IN  IF ~read_ok THEN {}
        ELSE {n \in candidates :
                 \A m \in candidates :
                     modified(dir, m, meta_fails) <= modified(dir, n, meta_fails)}

NoEntry == [kind |-> "none", mtime |-> 0]

NoDirRun == [op |-> "none"]

DirIdle == workdir = [n \in DirNames |-> NoEntry] /\ dir_run = NoDirRun

\* ------------------------------------ update tasks (state/updating/action)
\* the files of the extracted bundle, the directories tasks move them to, and
\* the values a task writes to the JSON field
TaskFiles == {"agent", "plugin"}

TaskDirs == {"bin", "lib"}

JsonValues == {"v1", "v2"}

\* move_action.rs execute(src, dest): src must be a file; dest is created when
\* it does not exist and must be a directory; the file is renamed into it.
\* fault: the call of this task that fails ("create": create_dir_all,
\* "rename": fs::rename), if any. A directory created stays when the rename
\* fails.
move_execute(t, src, dest, fault) ==
    IF t.at[src] # "bundle"
    THEN [result |-> "Err_Move", tfs |-> t]
    ELSE IF t.dirs[dest] = "none" /\ fault = "create"
    THEN [result |-> "Err_Move", tfs |-> t]
    ELSE IF t.dirs[dest] = "file"
    THEN [result |-> "Err_Move", tfs |-> t]
    ELSE IF fault = "rename"
    THEN [result |-> "Err_Move", tfs |-> [t EXCEPT !.dirs[dest] = "dir"]]
    ELSE [result |-> "Ok",
          tfs |-> [t EXCEPT !.dirs[dest] = "dir", !.at[src] = dest]]

\* update_json::execute(file, field, value): the field of the JSON document is
\* set in place
update_json_execute(t, value, fault) ==
    IF fault = "json" THEN [result |-> "Err_UpdateJson", tfs |-> t]
    ELSE [result |-> "Ok", tfs |-> [t EXCEPT !.json = value]]

\* the match on the task of UpdateAction::run
execute_task(t, task, fault) ==
    IF task.action = "Move" THEN move_execute(t, task.src, task.dest, fault)
    ELSE update_json_execute(t, task.value, fault)

\* `?` that lets every task run whatever the one before returned
aborts_never(result) == FALSE

\* `?` on the result of a task: an error ends run
aborts(result) == result # "Ok"

\* the call that fails in a task, if the task reaches it
TaskFaults == {"none", "create", "rename", "json"}

\* UpdateAction::run, from task i on; faults: the call that fails in each
\* task; trace: what each task executed met, returned and left
RECURSIVE run_from(_, _, _, _, _)
run_from(tasks, i, t, faults, trace) ==
    IF i > Len(tasks) THEN [result |-> "Ok", tfs |-> t, trace |-> trace]
    ELSE LET e == execute_task(t, tasks[i], faults[i])
             step == [index |-> i, result |-> e.result, before |-> t, after |-> e.tfs]
         IN  IF aborts(e.result)
             THEN [result |-> e.result, tfs |-> e.tfs, trace |-> Append(trace, step)]
             ELSE run_from(tasks, i + 1, e.tfs, faults, Append(trace, step))

run(tasks, t, faults) == run_from(tasks, 1, t, faults, <<>>)

NoTaskRun == [op |-> "none"]

TaskIdle ==
    /\ tfs = [at |-> [f \in TaskFiles |-> "bundle"], dirs |-> [d \in TaskDirs |-> "none"],
              json |-> "v1"]
    /\ task_run = NoTaskRun

\* ------------------------------------ NodeX::update_version (services/nodex.rs)
\* a URL or a path is a sequence of pieces of text; the release prefix is
\* "https://github.com" "/nodecross/nodex" "/releases/download/"
ReleasePrefix == <<"https://github.com", "/nodecross/nodex", "/releases/download/">>

\* str::starts_with, with the prefix looked for anywhere in the text
starts_with_anywhere(text, prefix) ==
    \E i \in 0..(Len(text) - Len(prefix)) :
        \A j \in 1..Len(prefix) : text[i + j] = prefix[j]

\* str::starts_with
starts_with(text, prefix) ==
    /\ Len(prefix) <= Len(text)
    /\ \A j \in 1..Len(prefix) : text[j] = prefix[j]

\* str::ends_with('/')
ends_with_slash(text) == text # <<>> /\ text[Len(text)] = "/"

\* str::trim_end: trailing white space is taken off (a '/' is not)
RECURSIVE trim_end(_)
trim_end(text) ==
    IF text # <<>> /\ text[Len(text)] = " " THEN trim_end(SubSeq(text, 1, Len(text) - 1))
    ELSE text

\* the call of update_version that fails, if it is reached
UpdateVersionFaults ==
    {"none", "get", "bytes", "remove", "extract", "chmod", "daemonize", "spawn"}

\* NodeX::update_version(binary_url, output_path). h: the file at agent_path
\* and what was started; has_agent: the archive holds nodex-agent. did: the
\* operations attempted, in order.
update_version(h, binary_url, output_path, has_agent, fault) ==
    LET dir == IF ends_with_slash(output_path) THEN trim_end(output_path) ELSE output_path
        agent_path == dir \o <<"/", "nodex-agent">>
        removing == h.agent # "none"
        d1 == <<"download">>
        d2 == IF removing THEN d1 \o <<"remove">> ELSE d1
        d3 == d2 \o <<"extract">>
        d4 == d3 \o <<"chmod">>
        d5 == d4 \o <<"daemonize">>
        d6 == d5 \o <<"spawn">>
        removed == [h EXCEPT !.agent = "none"]
        extracted == [removed EXCEPT !.agent = IF has_agent THEN "new" ELSE "none"]
        daemonized == [extracted EXCEPT !.daemonized = TRUE]
    IN  IF ~starts_with(binary_url, ReleasePrefix)
        THEN [result |-> "Err_InvalidUrl", host |-> h, did |-> <<>>]
        ELSE IF fault \in {"get", "bytes"}
        THEN [result |-> "Err", host |-> h, did |-> d1]
        ELSE IF removing /\ fault = "remove"
        THEN [result |-> "Err", host |-> h, did |-> d2]
        ELSE IF fault = "extract"
        THEN [result |-> "Err", host |-> removed, did |-> d3]
        ELSE IF fault = "chmod"
        THEN [result |-> "Err", host |-> extracted, did |-> d4]
        ELSE IF fault = "daemonize"
        THEN [result |-> "panicked", host |-> extracted, did |-> d5]
        ELSE IF fault = "spawn" \/ ~has_agent
        THEN [result |-> "panicked", host |-> daemonized, did |-> d6]
        ELSE [result |-> "Ok", host |-> [daemonized EXCEPT !.spawned = agent_path],
              did |-> d6]

NoUpvRun == [op |-> "none"]

UpvIdle ==
    /\ host = [agent |-> "old", daemonized |-> FALSE, spawned |-> <<>>]
    /\ upv_run = NoUpvRun

\* ------------------------------------- RuntimeInfo::load_or_default (runtime.rs)
\* the call of read that fails whatever the file holds, if any
ReadFaults == {"none", "open", "read"}

\* RuntimeInfo::read(path): open (which fails when the file does not exist),
\* read_to_string, serde_json::from_str
RuntimeInfo_read_path(sf, fault) ==
    IF ~sf.exists \/ fault = "open" THEN [result |-> "Err_FileOpen", info |-> <<>>]
    ELSE IF fault = "read" THEN [result |-> "Err_FileRead", info |-> <<>>]
    ELSE IF ~RuntimeInfo_read(sf.bytes).ok
    THEN [result |-> "Err_JsonSerialize", info |-> <<>>]
    ELSE [result |-> "Ok", info |-> RuntimeInfo_read(sf.bytes).info]

\* load_or_default that hands on the error of read
load_or_default_strict(sf, fault) ==
    LET r == RuntimeInfo_read_path(sf, fault)
    IN  [result |-> r.result, info |-> r.info, file |-> sf]

\* RuntimeInfo::load_or_default(path, lock):
\* Self::read(path).unwrap_or_else(|_| Self::default())
load_or_default(sf, fault) ==
    LET r == RuntimeInfo_read_path(sf, fault)
    IN  [result |-> "Ok",
         info |-> IF r.result = "Ok" THEN r.info ELSE RuntimeInfo_default,
         file |-> sf]

NoLoadRun == [op |-> "none"]

LoadIdle ==
    /\ state_file = [exists |-> FALSE, bytes |-> <<>>]
    /\ load_run = NoLoadRun

AuxIdle == DirIdle /\ TaskIdle /\ UpvIdle /\ LoadIdle

ExtIdle == VcIdle /\ ErrIdle /\ AgentIdle /\ MetricIdle /\ AuxIdle

\* serde_json::to_string(&vc): the payload is the one string whose text matters
vc_to_string(vc) == [vc EXCEPT !.container.payload = to_json_string(@)]

\* serde_json::from_str::<VerifiableCredentials>
vc_from_str(text) ==
    LET payload == from_json_string(text.container.payload)
    IN  [ok |-> payload.ok, vc |-> [text EXCEPT !.container.payload = payload.value]]

\* the match on MessageActivityHttpError
map_activity_error(e) ==
    IF e \in {"BadRequest", "Unauthorized", "Forbidden", "NotFound", "Conflict"}
    THEN e ELSE "Other"

\* what the activity repository answers
ActivityResults ==
    {"Ok", "BadRequest", "Unauthorized", "Forbidden", "NotFound", "Conflict",
     "InternalServerError"}

\* what ProjectVerifier::verify_project_hmac answers
HmacResults == {"Ok_true", "Ok_false", "Err"}

GenerateFaults == {"none", "find_err", "not_found", "hmac", "vc"}

\* an order in which generate never runs its steps: the credential first
generate_steps_sign_first ==
    <<"vc_generate", "find_identifier", "create_project_hmac", "add_create_activity">>

\* the steps of generate that can fail, in the order of its statements
generate_steps ==
    <<"find_identifier", "create_project_hmac", "vc_generate", "add_create_activity">>

\* the step a fault or a repository answer makes fail ("none": no step)
failing_step(fault, activity) ==
    IF fault \in {"find_err", "not_found"} THEN "find_identifier"
    ELSE IF fault = "hmac" THEN "create_project_hmac"
    ELSE IF fault = "vc" THEN "vc_generate"
    ELSE IF activity # "Ok" THEN "add_create_activity"
    ELSE "none"

\* the steps run to completion when the step failing returns with ?
RECURSIVE steps_completed(_, _, _)
steps_completed(order, failing, i) ==
    IF i > Len(order) \/ order[i] = failing THEN <<>>
    ELSE <<order[i]>> \o steps_completed(order, failing, i + 1)

\* VerifiableMessageUseCase::generate, run by my_did; fault: the step that
\* fails, activity: what add_create_activity answers
generate(my_did, destination_did, message, message_id, now, fault, activity) ==
    LET encoded == EncodedMessage(message_id, message, destination_did, now, "mock")
        vc == vc_generate(my_did, my_did, encoded)
        result == vc_to_string(vc)
        request == [kind |-> "create", message_id |-> message_id, from |-> my_did,
                    to |-> destination_did, at |-> now, status |-> "none"]
        steps == steps_completed(generate_steps, failing_step(fault, activity), 1)
        done == {steps[i] : i \in 1..Len(steps)}
        Fail(e) == [result |-> e, text |-> <<>>, steps |-> steps,
                    recorded |-> IF "add_create_activity" \in done
                                 THEN <<request>> ELSE <<>>]
    IN  IF fault = "find_err" THEN Fail("Other")
        ELSE IF fault = "not_found" THEN Fail("DestinationNotFound")
        ELSE IF fault = "hmac" THEN Fail("Other")
        ELSE IF fault = "vc" THEN Fail("VCServiceFailed")
        ELSE IF activity # "Ok" THEN Fail(map_activity_error(activity))
        ELSE [result |-> "Ok", text |-> <<result>>, steps |-> steps,
              recorded |-> <<request>>]

\* the test of the destination in verify
addressed_to_anyone(message, my_did) == TRUE

addressed_to_me(message, my_did) == message.destination_did = my_did

\* the status verify reports for a checked HMAC
status_always_valid(hmac_ok) == "Valid"

VerifiedStatus(hmac_ok) == IF hmac_ok THEN "Valid" ELSE "Invalid"

\* VerifiableMessageUseCase::verify, run by my_did on the text message;
\* resolved: the issuer's document is found, hmac: what verify_project_hmac
\* answers, activity: what add_verify_activity answers
verify(message, my_did, now, resolved, hmac, activity) ==
    LET decoded == vc_from_str(message)
        vc == decoded.vc
        container == vc.container
        request == [kind |-> "verify", message_id |-> container.message_id,
                    from |-> vc.issuer, to |-> my_did, at |-> now,
                    status |-> VerifiedStatus(hmac = "Ok_true")]
        Fail(e, checked, calls) ==
            [result |-> e, vc |-> <<>>, hmac_checked |-> checked, calls |-> calls,
             recorded |-> <<>>]
    IN  IF ~decoded.ok THEN Fail("Other", FALSE, <<>>)
        ELSE IF ~vc_verify(vc, resolved) THEN Fail("VCServiceFailed", FALSE, <<>>)
        ELSE IF container.shape # "EncodedMessage" THEN Fail("Other", FALSE, <<>>)
        ELSE IF ~addressed_to_me(container, my_did)
            THEN Fail("NotAddressedToMe", FALSE, <<>>)
        ELSE IF hmac = "Err" THEN Fail("Other", TRUE, <<>>)
        ELSE IF activity # "Ok"
            THEN Fail(map_activity_error(activity), TRUE, <<request>>)
        ELSE IF hmac = "Ok_true"
            THEN [result |-> "Ok", vc |-> <<vc>>, hmac_checked |-> TRUE,
                  calls |-> <<request>>, recorded |-> <<request>>]
        ELSE [result |-> "VerificationFailed", vc |-> <<>>, hmac_checked |-> TRUE,
              calls |-> <<request>>, recorded |-> <<request>>]

\* no message has been generated or verified
NoMsgRun ==
    [op |-> "none", result |-> "none", by |-> MyDid, vc |-> <<>>,
     hmac_checked |-> FALSE, calls |-> <<>>, recorded |-> <<>>, hmac |-> "Ok_true",
     activity |-> "Ok", resolved |-> TRUE, text |-> <<>>, fault |-> "none",
     steps |-> <<>>]

MsgIdle ==
    /\ wire = <<>>
    /\ sent = <<>>
    /\ activities = <<>>
    /\ msg_run = NoMsgRun

\* no backup() or rollback() call has been made
NoRes == [pc |-> "start", saved |-> fs, pre |-> fs, pre_temp |-> restore_temp,
          result |-> "none"]

ResIdle == res = NoRes

LibIdle == ResIdle /\ KeyIdle /\ CoseIdle /\ MsgIdle /\ ExtIdle

Init == CtlInit /\ VerIdle /\ ConcIdle /\ LibIdle

\* StateHandler::handle, State::Default => DefaultState::execute
HandleDefault ==
    /\ UNCHANGED <<ver_vars, conc_vars, lib_vars>>
    /\ upd.pc = "idle"
    /\ runtime_info.state = "Default"
    /\ next_pid <= MaxPid
    /\ \E fault \in HandlerFaults :
          LET r == default_execute(runtime_info, fault, next_pid)
          IN  /\ runtime_info' = r.info
              /\ alive' = alive \cup r.launched
              /\ next_pid' = IF r.launched = {} THEN next_pid ELSE next_pid + 1
              /\ last' = Run("Default", r, {}, fault # "read")
    /\ UNCHANGED <<fs, backups, restore_temp, clock, upd>>

\* StateHandler::handle, State::Rollback => RollbackState::execute
HandleRollback ==
    /\ UNCHANGED <<ver_vars, conc_vars, lib_vars>>
    /\ upd.pc = "idle"
    /\ runtime_info.state = "Rollback"
    /\ next_pid <= MaxPid
    /\ \E fault \in RollbackFaults :
          LET r == rollback_execute(runtime_info, alive, backups, restore_temp, fs,
                                    fault, next_pid)
          IN  /\ runtime_info' = r.info
              /\ restore_temp' = r.temp
              /\ fs' = r.tree
              /\ alive' = alive \cup r.launched
              /\ next_pid' = IF r.launched = {} THEN next_pid ELSE next_pid + 1
              /\ last' = Run("Rollback", r, get_latest_backup(backups), fault # <<"read", 0>>)
    /\ UNCHANGED <<backups, clock, upd>>

\* the external trigger of an update (spec 4.7: Default -> Updating)
TriggerUpdate ==
    /\ UNCHANGED <<ver_vars, conc_vars, lib_vars>>
    /\ upd.pc = "idle"
    /\ runtime_info.state = "Default"
    /\ runtime_info' = update_state(runtime_info, "Update")
    /\ last' = NoRun
    /\ UNCHANGED <<alive, next_pid, fs, backups, restore_temp, clock, upd>>

\* UpdateState::execute returned Err(e): handle calls handle_update_failed
UpdateFailed(e) ==
    \E wr_ok \in BOOLEAN :
        LET h == handle_update_failed(runtime_info, e, wr_ok)
        IN  /\ runtime_info' = h.info
            /\ upd' = NoUpdate
            /\ last' = [op |-> "Update", result |-> h.result, pre_info |-> runtime_info,
                        pre_alive |-> alive, launched |-> {}, read_ok |-> TRUE, latest |-> {},
                        failed |-> e, error |-> h.error]

\* StateHandler::handle, State::Update => UpdateState::execute, first step: backup()
UpdBackup ==
    /\ UNCHANGED <<ver_vars, conc_vars, lib_vars>>
    /\ upd.pc = "idle"
    /\ runtime_info.state = "Update"
    /\ \E outcome \in {"Ok", "Err_create", "Err_tar"}, now \in clock..MaxClock :
          LET b == backup(backups, fs, now, outcome)
          IN  /\ backups' = b.archives
              /\ clock' = now
              /\ IF b.result = "Ok"
                 THEN /\ upd' = [NoUpdate EXCEPT !.pc = "download"]
                      /\ last' = NoRun
                      /\ UNCHANGED runtime_info
                 ELSE UpdateFailed("BackupFailed")
    /\ UNCHANGED <<alive, next_pid, fs, restore_temp>>

UpdDownload ==
    /\ UNCHANGED <<ver_vars, conc_vars, lib_vars>>
    /\ upd.pc = "download"
    /\ \E fetch_ok \in BOOLEAN, zip_ok \in BOOLEAN, fail_entry \in 0..Len(ZipEntries),
          v \in 1..MaxVer :
          LET d == download_update_resources(fetch_ok, zip_ok, fail_entry)
          IN  IF d.result = "Ok"
              THEN /\ upd' = [upd EXCEPT !.pc = "verify", !.fetched = d.fetched,
                                         !.extracted = d.extracted, !.version = v]
                   /\ UNCHANGED <<runtime_info, last>>
              ELSE UpdateFailed("DownloadFailed")
    /\ UNCHANGED <<alive, next_pid, fs, backups, restore_temp, clock>>

UpdVerify ==
    /\ UNCHANGED <<ver_vars, conc_vars, lib_vars>>
    /\ upd.pc = "verify"
    /\ \E in \in VerifyCases :
          LET r == BundleVerifier_verify(in)
          IN  IF r = "Ok"
              THEN /\ upd' = [upd EXCEPT !.pc = "tasks", !.verified = TRUE]
                   /\ UNCHANGED <<runtime_info, last>>
              ELSE IF r = "Panic"
              THEN /\ upd' = NoUpdate
                   /\ last' = [op |-> "Update", result |-> "Panic", pre_info |-> runtime_info,
                               pre_alive |-> alive, launched |-> {},
                               read_ok |-> TRUE, latest |-> {}, failed |-> "none", error |-> "none"]
                   /\ UNCHANGED runtime_info
              ELSE UpdateFailed("VerifyFailed")
    /\ UNCHANGED <<alive, next_pid, fs, backups, restore_temp, clock>>

\* UpdateAction::run: the Move task puts the new executable in place
UpdTasks ==
    /\ UNCHANGED <<ver_vars, conc_vars, lib_vars>>
    /\ upd.pc = "tasks"
    /\ \E ok \in BOOLEAN :
          IF ok
          THEN /\ fs' = [fs EXCEPT ![Exe] = File(upd.version)]
               /\ upd' = [upd EXCEPT !.pc = "terminate"]
               /\ UNCHANGED <<runtime_info, last>>
          ELSE /\ UpdateFailed("TaskFailed")
               /\ UNCHANGED fs
    /\ UNCHANGED <<alive, next_pid, backups, restore_temp, clock>>

\* the recorded agents are sent SIGTERM and taken off the runtime state
UpdTerminate ==
    /\ UNCHANGED <<ver_vars, conc_vars, lib_vars>>
    /\ upd.pc = "terminate"
    /\ LET agents == filter_process_infos(runtime_info, "Agent")
           pids == {agents[i].process_id : i \in 1..Len(agents)}
       IN  IF \A p \in pids : terminate_agent(p, alive) = "Ok"
           THEN /\ alive' = alive \ pids
                /\ runtime_info' = [runtime_info EXCEPT !.process_infos =
                                       SelectSeq(@, LAMBDA q : q.feat_type # "Agent")]
                /\ upd' = [upd EXCEPT !.pc = "launch"]
                /\ UNCHANGED last
           ELSE /\ UpdateFailed("AgentError")
                /\ UNCHANGED alive
    /\ UNCHANGED <<next_pid, fs, backups, restore_temp, clock>>

\* the new agent is launched and recorded, and the state returns to Default
UpdLaunch ==
    /\ UNCHANGED <<ver_vars, conc_vars, lib_vars>>
    /\ upd.pc = "launch"
    /\ next_pid <= MaxPid
    /\ \E fault \in {"none", "fork", "write"} :
          LET l == launch_agent(fault # "fork", next_pid)
          IN  IF l.result # "Ok"
              THEN /\ UpdateFailed("AgentError")
                   /\ UNCHANGED <<alive, next_pid>>
              ELSE /\ alive' = alive \cup {next_pid}
                   /\ next_pid' = next_pid + 1
                   /\ IF fault # "write"
                      THEN /\ runtime_info' =
                                update_state(add_process_info(runtime_info, l.process_info),
                                             "Default")
                           /\ upd' = NoUpdate
                           /\ last' = [op |-> "Update", result |-> "Ok",
                                       pre_info |-> runtime_info, pre_alive |-> alive,
                                       launched |-> {next_pid}, read_ok |-> TRUE, latest |-> {},
                                       failed |-> "none", error |-> "none"]
                      ELSE UpdateFailed("RuntimeError")
    /\ UNCHANGED <<fs, backups, restore_temp, clock>>

\* an agent process exits or crashes
AgentExit ==
    /\ UNCHANGED <<ver_vars, conc_vars, lib_vars>>
    /\ \E p \in alive : alive' = alive \ {p}
    /\ last' = NoRun
    /\ UNCHANGED <<runtime_info, next_pid, fs, backups, restore_temp, clock, upd>>

Next ==
    \/ HandleDefault
    \/ HandleRollback
    \/ TriggerUpdate
    \/ UpdBackup
    \/ UpdDownload
    \/ UpdVerify
    \/ UpdTasks
    \/ UpdTerminate
    \/ UpdLaunch
    \/ AgentExit

Spec == Init /\ [][Next]_vars

\* ------------------------------------------------------------- SpecVerify
VerifyInit ==
    /\ CtlInit
    /\ ConcIdle
    /\ LibIdle
    /\ vin \in VerifyInputs
    /\ vout = "none"

VerifyRun ==
    /\ vout = "none"
    /\ vout' = BundleVerifier_verify(vin)
    /\ UNCHANGED <<vin, ctl_vars, conc_vars, lib_vars>>

VerifyNext == VerifyRun

SpecVerify == VerifyInit /\ [][VerifyNext]_vars

\* --------------------------------------------------------------- SpecConc
\* StateHandler::handle: runtime_manager.get_state()
CGetState(t) ==
    /\ th[t].pc = "idle"
    /\ LET r == RuntimeInfo_read(file)
       IN  /\ th' = [th EXCEPT ![t] =
                        IF r.ok /\ r.info.state = "Default"
                        THEN [ThreadIdle EXCEPT !.pc = "filter"]
                        ELSE [ThreadIdle EXCEPT !.pc = IF r.ok THEN "idle" ELSE "failed"]]
    /\ UNCHANGED <<file, flock, ctl_vars, ver_vars, lib_vars>>

\* default::execute: filter_process_infos(FeatType::Agent)
CFilter(t) ==
    /\ th[t].pc = "filter"
    /\ LET r == RuntimeInfo_read(file)
       IN  th' = [th EXCEPT ![t] =
                     IF ~r.ok THEN [ThreadIdle EXCEPT !.pc = "failed"]
                     ELSE IF agent_already_running(filter_process_infos(r.info, "Agent"))
                     THEN ThreadIdle
                     ELSE [ThreadIdle EXCEPT !.pc = "launch", !.info = r.info]]
    /\ UNCHANGED <<file, flock, ctl_vars, ver_vars, lib_vars>>

\* default::execute: launch_agent, then add_process_info
CLaunch(t) ==
    /\ th[t].pc = "launch"
    /\ next_pid <= MaxPid
    /\ alive' = alive \cup {next_pid}
    /\ next_pid' = next_pid + 1
    /\ th' = [th EXCEPT ![t] =
                 [pc |-> "w_open", off |-> 0,
                  info |-> add_process_info(th[t].info, ProcessInfo_new(next_pid, "Agent"))]]
    /\ UNCHANGED <<file, flock, runtime_info, fs, backups, restore_temp, clock, upd, last,
                   ver_vars, lib_vars>>

\* RuntimeInfo::write: OpenOptions::new().write(true).create(true).truncate(true).open
CWriteOpen(t) ==
    /\ th[t].pc = "w_open"
    /\ file' = <<>>
    /\ th' = [th EXCEPT ![t].pc = "w_lock"]
    /\ UNCHANGED <<flock, ctl_vars, ver_vars, lib_vars>>

\* RuntimeInfo::write: file.lock_exclusive()
CWriteLock(t) ==
    /\ th[t].pc = "w_lock"
    /\ flock = 0
    /\ flock' = t
    /\ th' = [th EXCEPT ![t].pc = "w_write"]
    /\ UNCHANGED <<file, ctl_vars, ver_vars, lib_vars>>

\* RuntimeInfo::write: file.write_all(json_data.as_bytes()), one piece at a time
CWriteChunk(t) ==
    /\ th[t].pc = "w_write"
    /\ file' = write_at(file, th[t].off, to_chunks(th[t].info)[th[t].off + 1])
    /\ th' = [th EXCEPT ![t].off = @ + 1,
                        ![t].pc = IF th[t].off + 1 = Chunks THEN "w_unlock" ELSE "w_write"]
    /\ UNCHANGED <<flock, ctl_vars, ver_vars, lib_vars>>

\* RuntimeInfo::write: file.unlock(); the handler is finished
CWriteUnlock(t) ==
    /\ th[t].pc = "w_unlock"
    /\ flock' = 0
    /\ th' = [th EXCEPT ![t] = ThreadIdle]
    /\ UNCHANGED <<file, ctl_vars, ver_vars, lib_vars>>

\* the caller of handle sees the error and calls handle again later
CRetry(t) ==
    /\ th[t].pc = "failed"
    /\ th' = [th EXCEPT ![t] = ThreadIdle]
    /\ UNCHANGED <<file, flock, ctl_vars, ver_vars, lib_vars>>

CAgentExit ==
    /\ \E p \in alive : alive' = alive \ {p}
    /\ UNCHANGED <<runtime_info, next_pid, fs, backups, restore_temp, clock, upd, last,
                   ver_vars, conc_vars, lib_vars>>

ConcNext ==
    \/ \E t \in Threads : CGetState(t)
    \/ \E t \in Threads : CFilter(t)
    \/ \E t \in Threads : CLaunch(t)
    \/ \E t \in Threads : CWriteOpen(t)
    \/ \E t \in Threads : CWriteLock(t)
    \/ \E t \in Threads : CWriteChunk(t)
    \/ \E t \in Threads : CWriteUnlock(t)
    \/ \E t \in Threads : CRetry(t)
    \/ CAgentExit

SpecConc == Init /\ [][ConcNext]_vars

\* ---------------------------------------------------------------- SpecRes
\* backup() and rollback(get_latest_backup()) on every tree and scratch content.
ExeNodes == {Absent} \cup {File(v) : v \in 1..MaxVer}

DirEntries ==
    {e \in SUBSET (FileNames \X (1..MaxVer)) : \A f, g \in e : f[1] = g[1] => f = g}

ConfigNodes == {Absent} \cup {Dir(e) : e \in DirEntries}

Trees ==
    {t \in [AbsPaths -> ExeNodes \cup ConfigNodes] :
        t[Exe] \in ExeNodes /\ t[ConfigDir] \in ConfigNodes}

\* what earlier uses of /tmp/restore_temp may have left in it
Scratches ==
    {t \in [RelPaths -> {Absent, File(1), Dir({<<"extra.json", 1>>})}] :
        t[strip_prefix(Exe)].kind # "dir"}

\* the calls of rollback() that may fail
ResourceFaults ==
    {<<"none", 0>>, <<"open", 0>>}
    \cup ({"remove", "rename"} \X (1..Len(get_paths_to_backup)))

ResInit ==
    /\ runtime_info = RuntimeInfo_default
    /\ alive = {}
    /\ next_pid = 1
    /\ fs \in Trees
    /\ backups = {}
    /\ restore_temp \in Scratches
    /\ clock = 0
    /\ upd = NoUpdate
    /\ last = NoRun
    /\ VerIdle
    /\ ConcIdle
    /\ LibIdle

not_res_vars ==
    <<runtime_info, alive, next_pid, upd, last, ver_vars, conc_vars, key_vars, cose_vars,
      msg_vars, ext_vars>>

\* backup() of the tree as it is
ResBackup ==
    /\ res.pc = "start"
    /\ \E outcome \in {"Ok", "Err_create", "Err_tar"}, now \in clock..MaxClock :
          LET b == backup(backups, fs, now, outcome)
          IN  /\ backups' = b.archives
              /\ clock' = now
              /\ res' = [res EXCEPT !.pc = IF b.result = "Ok" THEN "backed" ELSE "start",
                                    !.saved = fs]
    /\ UNCHANGED <<fs, restore_temp, not_res_vars>>

\* the backed-up paths are modified after the backup (an update, an operator)
ResModify ==
    /\ res.pc = "backed"
    /\ \E t \in Trees : t # fs /\ fs' = t
    /\ UNCHANGED <<backups, restore_temp, clock, res, not_res_vars>>

\* rollback(get_latest_backup()), also again after a rollback that failed
ResRollback ==
    /\ res.pc = "backed" \/ (res.pc = "rolled" /\ res.result # "Ok")
    /\ get_latest_backup(backups) # {}
    /\ \E fault \in ResourceFaults :
          LET r == rollback(CHOOSE a \in get_latest_backup(backups) : TRUE,
                            restore_temp, fs, fault)
          IN  /\ fs' = r.tree
              /\ restore_temp' = r.temp
              /\ res' = [res EXCEPT !.pc = "rolled", !.pre = fs,
                                    !.pre_temp = restore_temp, !.result = r.result]
    /\ UNCHANGED <<backups, clock, not_res_vars>>

ResNext ==
    \/ ResBackup
    \/ ResModify
    \/ ResRollback

SpecRes == ResInit /\ [][ResNext]_vars

\* ---------------------------------------------------------------- SpecKey
\* the keyrings a device creates, one after the other
MaxKeyring == 2

KeyInit ==
    /\ CtlInit
    /\ VerIdle
    /\ ConcIdle
    /\ ResIdle
    /\ CoseIdle
    /\ MsgIdle
    /\ ExtIdle
    /\ keystore \in {NoKeystore("keypair"), NoKeystore("mnemonic")}
    /\ key_run = NoKeyRun

not_key_vars == <<ctl_vars, ver_vars, conc_vars, res_vars, cose_vars, msg_vars, ext_vars>>

\* create_keyring, then save(did)
KeySave ==
    /\ \E keyring \in 1..MaxKeyring, stop_at \in 0..Len(EntriesOf(keystore.strategy)) :
          LET written == IF keystore.strategy = "keypair"
                         THEN KeyPairingWithConfig_save(keystore.entries, keyring, stop_at)
                         ELSE MnemonicKeyring_save(keystore.entries, keyring, stop_at)
          IN  /\ keystore' = [keystore EXCEPT !.entries = written]
              /\ key_run' = [op |-> "save", pre |-> keystore.entries, keyring |-> keyring,
                             completed |-> (stop_at = 0)]
    /\ UNCHANGED not_key_vars

\* load_keyring on boot
KeyLoad ==
    /\ keystore.strategy = "keypair"
    /\ LET l == load_keyring(keystore.entries)
       IN  key_run' = [op |-> "load", result |-> l.result, keys |-> l.keys]
    /\ UNCHANGED <<keystore, not_key_vars>>

KeyNext ==
    \/ KeySave
    \/ KeyLoad

SpecKey == KeyInit /\ [][KeyNext]_vars

\* --------------------------------------------------------------- SpecCose
\* the number of times the clock is read at a later time
MaxAdvance == 2

\* how far the clock may have moved between two calls: a tick, a second, a tick
\* less than the token lifetime, the token lifetime
Advances ==
    {1, TicksPerSec, TokenLifetime * TicksPerSec - 1, TokenLifetime * TicksPerSec}

CoseInit ==
    /\ CtlInit
    /\ VerIdle
    /\ ConcIdle
    /\ ResIdle
    /\ KeyIdle
    /\ CoseIdle
    /\ MsgIdle
    /\ ExtIdle

not_cose_vars == <<ctl_vars, ver_vars, conc_vars, res_vars, key_vars, msg_vars, ext_vars>>

CoseTick ==
    /\ advanced < MaxAdvance
    /\ advanced' = advanced + 1
    /\ \E d \in Advances : utc_now' = utc_now + d
    /\ UNCHANGED <<token, sign1, cose_out, not_cose_vars>>

\* the caller makes a token with Token::new
CoseTokenNew ==
    /\ token = <<>> /\ sign1 = <<>>
    /\ \E did \in Dids : token' = <<Token_new(did, utc_now)>>
    /\ cose_out' = [result |-> "none"]
    /\ UNCHANGED <<utc_now, advanced, sign1, not_cose_vars>>

\* the caller builds the Token itself (its fields are public)
CoseTokenLiteral ==
    /\ \E did \in Dids, exp \in {0, utc_now, utc_now + TicksPerSec} :
          token' = <<[did |-> did, exp |-> exp]>>
    /\ token = <<>> /\ sign1 = <<>>
    /\ cose_out' = [result |-> "none"]
    /\ UNCHANGED <<utc_now, advanced, sign1, not_cose_vars>>

\* sign_message(signing_key, &WithToken { token, inner })
CoseSign ==
    /\ token # <<>>
    /\ \E key \in Dids, fault \in SignFaults :
          LET m == sign_message(key, [token |-> token[1], inner |-> "m"], fault)
          IN  /\ m.result = "Ok"
              /\ sign1' = <<[data |-> m.data[1], signed_at |-> utc_now]>>
    /\ token' = <<>>
    /\ UNCHANGED <<utc_now, advanced, cose_out, not_cose_vars>>

\* sign_message returns an error and produces no message
CoseSignFailed ==
    /\ token # <<>>
    /\ \E key \in Dids, fault \in SignFaults :
          /\ sign_message(key, [token |-> token[1], inner |-> "m"], fault).result # "Ok"
          /\ sign1' = <<>>
    /\ token' = <<>>
    /\ UNCHANGED <<utc_now, advanced, cose_out, not_cose_vars>>

\* verify_message(did_repository, key_type, data) on the message received
CoseVerify ==
    /\ sign1 # <<>>
    /\ \E fault \in VerifyMessageFaults :
          cose_out' = [result |-> verify_message(sign1[1].data, utc_now, {fault}),
                       fault |-> fault, at |-> utc_now, data |-> sign1[1].data]
    /\ sign1' = <<>>
    /\ UNCHANGED <<utc_now, advanced, token, not_cose_vars>>

CoseNext ==
    \/ CoseTick
    \/ CoseTokenNew
    \/ CoseTokenLiteral
    \/ CoseSign
    \/ CoseSignFailed
    \/ CoseVerify

SpecCose == CoseInit /\ [][CoseNext]_vars

\* ------------------------------------------------------------------ SpecMsg
\* One message at a time: an agent generates it, it may be altered on the
\* way, and an agent verifies what arrives.
MsgInit ==
    /\ CtlInit
    /\ VerIdle
    /\ ConcIdle
    /\ ResIdle
    /\ KeyIdle
    /\ CoseIdle
    /\ MsgIdle
    /\ ExtIdle

not_msg_vars ==
    <<ctl_vars, ver_vars, conc_vars, res_vars, key_vars, cose_vars, ext_vars>>

\* generate(destination_did, message, operation_tag, now), run by agent by
MsgGenerate ==
    /\ msg_run.op = "none"
    /\ \E by \in Dids, destination_did \in Dids, message \in Payloads,
          message_id \in 1..MaxMsgId, now \in 0..MaxClock,
          fault \in GenerateFaults, activity \in ActivityResults :
        LET r == generate(by, destination_did, message, message_id, now, fault,
                          activity)
        IN  /\ fault = "none" \/ activity = "Ok"
            /\ wire' = r.text
            /\ sent' = IF r.result = "Ok"
                       THEN <<[message |-> message, destination_did |-> destination_did,
                               by |-> by, text |-> r.text[1]]>>
                       ELSE <<>>
            /\ activities' = r.recorded
            /\ msg_run' = [NoMsgRun EXCEPT !.op = "generate", !.result = r.result,
                                           !.by = by, !.recorded = r.recorded,
                                           !.activity = activity, !.fault = fault,
                                           !.steps = r.steps]
    /\ UNCHANGED not_msg_vars

\* an agent issues a credential whose container is not an EncodedMessage
MsgOtherCredential ==
    /\ msg_run.op = "none"
    /\ \E by \in Dids, destination_did \in Dids :
        LET container == [EncodedMessage(1, <<>>, destination_did, 0, "mock")
                              EXCEPT !.shape = "other"]
            text == vc_to_string(vc_generate(by, by, container))
        IN  /\ wire' = <<text>>
            /\ sent' = <<[message |-> <<>>, destination_did |-> destination_did,
                          by |-> by, text |-> text]>>
            /\ msg_run' = [NoMsgRun EXCEPT !.op = "issue", !.result = "Ok",
                                           !.by = by]
    /\ UNCHANGED <<activities, not_msg_vars>>

\* the message is altered on the way: its destination is replaced, or its text
\* is cut short
MsgTamper ==
    /\ wire # <<>>
    /\ msg_run.op \in {"generate", "issue"}
    /\ \/ \E d \in Dids \ {wire[1].container.destination_did} :
            wire' = <<[wire[1] EXCEPT !.container.destination_did = d]>>
       \/ wire' = <<[wire[1] EXCEPT !.container.payload = SubSeq(@, 1, Len(@) - 1)]>>
    /\ msg_run' = [msg_run EXCEPT !.op = "tamper"]
    /\ UNCHANGED <<sent, activities, not_msg_vars>>

\* verify(message, now), run by agent by on the message that arrived
MsgVerify ==
    /\ wire # <<>>
    /\ \E by \in Dids, now \in 0..MaxClock, resolved \in BOOLEAN,
          hmac \in HmacResults, activity \in ActivityResults :
        LET r == verify(wire[1], by, now, resolved, hmac, activity)
        IN  /\ wire' = <<>>
            /\ activities' = activities \o r.recorded
            /\ msg_run' = [op |-> "verify", result |-> r.result, by |-> by,
                           vc |-> r.vc, hmac_checked |-> r.hmac_checked,
                           calls |-> r.calls, recorded |-> r.recorded,
                           hmac |-> hmac, activity |-> activity,
                           resolved |-> resolved, text |-> wire, fault |-> "none",
                           steps |-> <<>>]
    /\ UNCHANGED <<sent, not_msg_vars>>

\* the exchange is over
MsgDone ==
    /\ wire = <<>>
    /\ msg_run.op # "none"
    /\ sent' = <<>>
    /\ activities' = <<>>
    /\ msg_run' = NoMsgRun
    /\ UNCHANGED <<wire, not_msg_vars>>

MsgNext ==
    \/ MsgGenerate
    \/ MsgOtherCredential
    \/ MsgTamper
    \/ MsgVerify
    \/ MsgDone

SpecMsg == MsgInit /\ [][MsgNext]_vars

\* ------------------------------------------------------------------- SpecVc
\* One credential at a time: it is issued, it may be altered, and
\* DIDVCService::verify is run on it against what the resolver answers.
MaxKeys == 2
\* the signing keys of the DIDs, and one key more
Keys == Dids \cup {"key:x"}
Containers == {"c1", "c2"}
PublicKeyLists == UNION {[1..n -> [id : KeyIds, key : Keys]] : n \in 0..MaxKeys}
Resolutions ==
    {Resolution(FALSE, <<>>), Resolution(TRUE, <<>>)}
        \cup {Resolution(TRUE, <<keys>>) : keys \in PublicKeyLists}

VcInit ==
    /\ CtlInit
    /\ VerIdle
    /\ ConcIdle
    /\ ResIdle
    /\ KeyIdle
    /\ CoseIdle
    /\ MsgIdle
    /\ ExtIdle

not_vc_vars ==
    <<ctl_vars, ver_vars, conc_vars, res_vars, key_vars, cose_vars, msg_vars, err_vars,
      agent_vars, metric_vars, aux_vars>>

\* DIDVCService::generate by did, with its own keyring
VcGenerate ==
    /\ vc_run.op = "none"
    /\ \E did \in Dids :
        /\ vc_in' = <<vc_generate(did, did, "c1")>>
        /\ vc_run' = [NoVcRun EXCEPT !.op = "generate", !.result = "Ok"]
    /\ UNCHANGED not_vc_vars

\* a credential from another issuer's software: any signing key, and an
\* expiration_date
VcIssue ==
    /\ vc_run.op = "none"
    /\ \E did \in Dids, key \in Keys, exp \in 0..MaxClock :
        /\ vc_in' = <<CredentialSigner_sign(
                          [issuer |-> did, container |-> "c1",
                           expiration_date |-> <<exp>>], key)>>
        /\ vc_run' = [NoVcRun EXCEPT !.op = "issue", !.result = "Ok"]
    /\ UNCHANGED not_vc_vars

\* the credential is altered after it was signed
VcTamper ==
    /\ vc_in # <<>>
    /\ vc_run.op \in {"generate", "issue"}
    /\ \E c \in Containers \ {vc_in[1].container} :
        vc_in' = <<[vc_in[1] EXCEPT !.container = c]>>
    /\ vc_run' = [vc_run EXCEPT !.op = "tamper"]
    /\ UNCHANGED not_vc_vars

\* DIDVCService::verify, called at now
VcVerify ==
    /\ vc_in # <<>>
    /\ \E resolution \in Resolutions, fault \in VcVerifyFaults, now \in 0..MaxClock :
        /\ vc_run' = [op |-> "verify",
                      result |-> DIDVCService_verify(vc_in[1], resolution, fault),
                      model |-> vc_in, resolution |-> resolution, fault |-> fault,
                      now |-> now]
        /\ vc_in' = <<>>
    /\ UNCHANGED not_vc_vars

VcDone ==
    /\ vc_in = <<>>
    /\ vc_run.op # "none"
    /\ vc_run' = NoVcRun
    /\ UNCHANGED <<vc_in, not_vc_vars>>

VcNext ==
    \/ VcGenerate
    \/ VcIssue
    \/ VcTamper
    \/ VcVerify
    \/ VcDone

SpecVc == VcInit /\ [][VcNext]_vars

\* ------------------------------------------------------------------ SpecErr
\* The agent's HTTP server answers requests, one after another.
MaxResponses == 2

ErrInit == VcInit

not_err_vars ==
    <<ctl_vars, ver_vars, conc_vars, res_vars, key_vars, cose_vars, msg_vars, vc_vars,
      agent_vars, metric_vars, aux_vars>>

\* POST /verify-didcomm-message
ErrVerifyDidcomm ==
    /\ Len(responses) < MaxResponses
    /\ \E parses \in BOOLEAN, outcome \in VerifyDidcommOutcomes :
        /\ parses \/ outcome = "Ok"
        /\ responses' = Append(responses,
                               [by |-> "handler", parses |-> parses,
                                outcome |-> outcome,
                                response |-> handler(parses, outcome)])
    /\ UNCHANGED not_err_vars

\* any endpoint answering with create_agent_error(code)
ErrCreateAgentError ==
    /\ Len(responses) < MaxResponses
    /\ \E variant \in DOMAIN AgentErrorCode :
        responses' = Append(responses,
                            [by |-> "create_agent_error", parses |-> TRUE,
                             outcome |-> variant,
                             response |-> create_agent_error(variant)])
    /\ UNCHANGED not_err_vars

ErrNext ==
    \/ ErrVerifyDidcomm
    \/ ErrCreateAgentError

SpecErr == ErrInit /\ [][ErrNext]_vars

\* ---------------------------------------------------------------- SpecAgent
\* The controller constructs its UnixAgentManager and then launches and
\* terminates agents; the agents run, exit, or hang.
AgentInit ==
    /\ CtlInit
    /\ VerIdle
    /\ ConcIdle
    /\ ResIdle
    /\ KeyIdle
    /\ CoseIdle
    /\ MsgIdle
    /\ VcIdle
    /\ ErrIdle
    /\ MetricIdle
    /\ AuxIdle
    /\ fd_table \in [Fds -> {"closed", "listener", "file"}]
    /\ \A f \in Fds : f > DEFAULT_FD + 1 => fd_table[f] = "closed"
    /\ mgr = <<>>
    /\ procs = [p \in 1..MaxPid |-> NoProc]
    /\ ag_run = NoAgRun

not_agent_vars ==
    <<ctl_vars, ver_vars, conc_vars, res_vars, key_vars, cose_vars, msg_vars, vc_vars,
      err_vars, metric_vars, aux_vars>>

\* the processes a signal can be sent to
Running == {p \in 1..MaxPid : procs[p].state \in {"running", "terminating", "hung"}}

\* UnixAgentManager::new(uds_path)
AgNew ==
    /\ mgr = <<>>
    /\ ag_run.op = "none"
    /\ \E env \in Environments, fault \in NewFaults :
        LET r == setup_listener(fd_table, env, fault)
        IN  /\ env.systemd => fd_table[DEFAULT_FD] = "listener"
            /\ fd_table' = r.table
            /\ mgr' = IF r.result = "Ok"
                      THEN <<[listener_fd |-> r.listener_fd, listener |-> r.listener,
                              socket |-> r.table[r.listener_fd]]>>
                      ELSE <<>>
            /\ ag_run' = [op |-> "new",
                          result |-> IF r.result = "Ok" THEN "Ok" ELSE "FailedInitialize",
                          pid |-> 0, env |-> env, fault |-> fault, setup |-> r,
                          pre |-> fd_table]
    /\ UNCHANGED <<procs, not_agent_vars>>

\* launch_agent: fork(), and in the child LISTENER_FD is set and the agent
\* executed with the descriptors it inherits
AgLaunch ==
    /\ mgr # <<>>
    /\ \E pid \in 1..MaxPid, fork_ok \in BOOLEAN :
        LET l == launch_agent(fork_ok, pid)
        IN  /\ procs[pid].state = "none"
            /\ \A q \in 1..MaxPid : q < pid => procs[q].state # "none"
            /\ procs' = IF l.result = "Ok"
                        THEN [procs EXCEPT ![pid] =
                                 [state |-> "running",
                                  listener_fd |-> child_listener_fd(mgr[1]),
                                  socket |-> fd_table[child_listener_fd(mgr[1])]]]
                        ELSE procs
            /\ ag_run' = [op |-> "launch", result |-> l.result, pid |-> pid]
    /\ UNCHANGED <<fd_table, mgr, not_agent_vars>>

\* terminate_agent(process_id): SIGTERM is sent, and the call returns; the
\* agent starts its shutdown, or does not react
AgTerminate ==
    /\ mgr # <<>>
    /\ \E pid \in 1..MaxPid :
        LET r == terminate_agent(pid, Running)
        IN  /\ ag_run' = [op |-> "terminate", result |-> r, pid |-> pid]
            /\ IF r = "Ok" /\ procs[pid].state = "running"
               THEN \E reaction \in {"terminating", "hung"} :
                        procs' = [procs EXCEPT ![pid].state = reaction]
               ELSE UNCHANGED procs
    /\ UNCHANGED <<fd_table, mgr, not_agent_vars>>

\* an agent that handles SIGTERM finishes its shutdown and exits
AgShutdown ==
    /\ \E pid \in 1..MaxPid :
        /\ procs[pid].state = "terminating"
        /\ procs' = [procs EXCEPT ![pid].state = "exited"]
    /\ UNCHANGED <<fd_table, mgr, ag_run, not_agent_vars>>

\* an agent exits or crashes on its own
AgExit ==
    /\ \E pid \in 1..MaxPid :
        /\ procs[pid].state = "running"
        /\ procs' = [procs EXCEPT ![pid].state = "exited"]
    /\ UNCHANGED <<fd_table, mgr, ag_run, not_agent_vars>>

AgentNext ==
    \/ AgNew
    \/ AgLaunch
    \/ AgTerminate
    \/ AgShutdown
    \/ AgExit

SpecAgent == AgentInit /\ [][AgentNext]_vars

\* the controller's calls return, and an agent that handles SIGTERM completes
\* its shutdown
SpecAgentLive == SpecAgent /\ WF_vars(AgShutdown)

\* --------------------------------------------------------------- SpecMetric
\* start_send loops on its select! while the collector sends metrics, the
\* interval elapses and the shutdown is notified.
MaxMetrics == 3

MetricInit == VcInit

not_metric_vars ==
    <<ctl_vars, ver_vars, conc_vars, res_vars, key_vars, cose_vars, msg_vars, vc_vars,
      err_vars, agent_vars, aux_vars>>

\* the collector sends a metric to the channel
MetCollect ==
    /\ sender.produced < MaxMetrics
    /\ channel' = Append(channel, sender.produced + 1)
    /\ sender' = [sender EXCEPT !.produced = @ + 1]
    /\ UNCHANGED <<stores, not_metric_vars>>

\* the sleep of this round of the select! elapses
MetElapse ==
    /\ sender.pc = "select"
    /\ ~sender.elapsed
    /\ sender' = [sender EXCEPT !.elapsed = TRUE]
    /\ UNCHANGED <<stores, channel, not_metric_vars>>

\* the shutdown is notified
MetNotify ==
    /\ ~sender.notified
    /\ sender' = [sender EXCEPT !.notified = TRUE, !.held = stores.inmemory]
    /\ UNCHANGED <<stores, channel, not_metric_vars>>

\* select! takes the branch of shutdown_notify.notified(): the in-memory
\* metrics are written to the file store (a failed write panics), and the
\* loop is left
MetShutdown ==
    /\ sender.pc = "select"
    /\ sender.notified
    /\ \E written \in BOOLEAN :
        IF written
        THEN /\ stores' = [stores EXCEPT !.file = file_set(@, stores.inmemory)]
             /\ sender' = [sender EXCEPT !.pc = "done"]
        ELSE /\ sender' = [sender EXCEPT !.pc = "panicked"]
             /\ UNCHANGED stores
    /\ UNCHANGED <<channel, not_metric_vars>>

\* select! takes the branch of the sleep: the future of send is dropped
\* unpolled, and the in-memory store is flushed
MetSend ==
    /\ sender.pc = "select"
    /\ sender.elapsed
    /\ stores' = [stores EXCEPT !.transmitted = send_unawaited(@, stores.inmemory),
                                !.inmemory = inmemory_flush(@)]
    /\ sender' = [sender EXCEPT !.elapsed = FALSE,
                                !.since_notified = IF sender.notified
                                                   THEN @ \cup {"flush"} ELSE @]
    /\ UNCHANGED <<channel, not_metric_vars>>

\* select! takes the branch of receiver.recv(): the metric is stored
MetReceive ==
    /\ sender.pc = "select"
    /\ channel # <<>>
    /\ stores' = [stores EXCEPT !.inmemory = inmemory_set(@, <<Head(channel)>>)]
    /\ channel' = Tail(channel)
    /\ sender' = [sender EXCEPT !.elapsed = FALSE,
                                !.since_notified = IF sender.notified
                                                   THEN @ \cup {"receive"} ELSE @]
    /\ UNCHANGED not_metric_vars

MetricNext ==
    \/ MetCollect
    \/ MetElapse
    \/ MetNotify
    \/ MetShutdown
    \/ MetSend
    \/ MetReceive

SpecMetric == MetricInit /\ [][MetricNext]_vars

\* the runtime polls start_send whenever one of its branches is ready, and the
\* interval sleep does elapse
SpecMetricLive ==
    /\ SpecMetric
    /\ WF_vars(MetElapse)
    /\ WF_vars(MetSend)
    /\ WF_vars(MetReceive)
    /\ WF_vars(MetShutdown)

\* -------------------------------------------------------------- SpecIdent
IdentInit ==
    /\ CtlInit
    /\ VerIdle
    /\ ConcIdle
    /\ ResIdle
    /\ CoseIdle
    /\ MsgIdle
    /\ ExtIdle
    /\ keystore = NoKeystore("keypair")
    /\ key_run = [op |-> "none", made |-> 0]

\* a call of NodeX::create_identifier, on boot or later
IdCreateIdentifier ==
    /\ key_run.made < MaxKeyring
    /\ \E find \in FindResponses, create \in CreateResponses,
          stop_at \in 0..Len(KeyPairingEntries) :
          LET r == create_identifier(keystore.entries, key_run.made + 1, find, create,
                                     stop_at)
          IN  /\ keystore' = [keystore EXCEPT !.entries = r.entries]
              /\ key_run' = [op |-> "create_identifier", pre |-> keystore.entries,
                             find |-> find, create |-> create, result |-> r.result,
                             document |-> r.document,
                             made |-> IF r.created THEN key_run.made + 1
                                      ELSE key_run.made]
    /\ UNCHANGED not_key_vars

IdentNext ==
    \/ IdCreateIdentifier

SpecIdent == IdentInit /\ [][IdentNext]_vars

\* ---------------------------------------------------------------- SpecDir
\* the modification times a file of the working directory can have
MaxMtime == 2

DirInit ==
    /\ CtlInit
    /\ VerIdle
    /\ ConcIdle
    /\ ResIdle
    /\ KeyIdle
    /\ CoseIdle
    /\ MsgIdle
    /\ VcIdle
    /\ ErrIdle
    /\ AgentIdle
    /\ MetricIdle
    /\ TaskIdle
    /\ UpvIdle
    /\ LoadIdle
    /\ workdir \in [DirNames -> {NoEntry} \cup
                        [kind : {"file", "dir"}, mtime : 1..MaxMtime]]
    /\ dir_run = NoDirRun

not_dir_vars ==
    <<ctl_vars, ver_vars, conc_vars, res_vars, key_vars, cose_vars, msg_vars, vc_vars,
      err_vars, agent_vars, metric_vars, task_vars, upv_vars, load_vars>>

\* get_latest_backup(), with read_dir or one metadata() call failing
DirGetLatest ==
    /\ dir_run.op = "none"
    /\ \E read_ok \in BOOLEAN, meta_fails \in DirNames \cup {<<>>} :
          LET found == get_latest_backup_in(workdir, read_ok, meta_fails)
          IN  \/ /\ found = {}
                 /\ dir_run' = [op |-> "get_latest_backup", result |-> <<>>,
                                read_ok |-> read_ok, meta_fails |-> meta_fails]
              \/ \E n \in found :
                    dir_run' = [op |-> "get_latest_backup", result |-> n,
                                read_ok |-> read_ok, meta_fails |-> meta_fails]
    /\ UNCHANGED <<workdir, not_dir_vars>>

DirNext ==
    \/ DirGetLatest

SpecDir == DirInit /\ [][DirNext]_vars

\* --------------------------------------------------------------- SpecOrder
\* a message received, whoever signed it and whatever its exp (in seconds),
\* at a time up to two seconds
OrdInit ==
    /\ CtlInit
    /\ VerIdle
    /\ ConcIdle
    /\ ResIdle
    /\ KeyIdle
    /\ MsgIdle
    /\ ExtIdle
    /\ utc_now \in {0, TicksPerSec, TicksPerSec + 1, 2 * TicksPerSec}
    /\ advanced = 0
    /\ token = <<>>
    /\ \E did \in Dids, key \in Dids, exp \in 0..1 :
          sign1 = <<[data |-> [did |-> did, exp |-> exp, inner |-> "m",
                               signed_by |-> key],
                     signed_at |-> 0]>>
    /\ cose_out = [result |-> "none"]

\* verify_message on the message received, any of its steps failing
OrdVerify ==
    /\ sign1 # <<>>
    /\ \E faults \in SUBSET (VerifyMessageFaults \ {"none"}) :
          cose_out' = [result |-> verify_message(sign1[1].data, utc_now, faults),
                       faults |-> faults, at |-> utc_now, data |-> sign1[1].data]
    /\ sign1' = <<>>
    /\ UNCHANGED <<utc_now, advanced, token, not_cose_vars>>

OrdNext ==
    \/ OrdVerify

SpecOrder == OrdInit /\ [][OrdNext]_vars

\* --------------------------------------------------------------- SpecTasks
\* the longest task list
MaxTasks == 2

Tasks ==
    [action : {"Move"}, src : TaskFiles, dest : TaskDirs]
    \cup [action : {"UpdateJson"}, value : JsonValues]

RECURSIVE TaskLists(_)
TaskLists(n) ==
    IF n = 0 THEN {<<>>}
    ELSE TaskLists(n - 1)
         \cup {Append(l, t) : l \in {k \in TaskLists(n - 1) : Len(k) = n - 1}, t \in Tasks}

TasksInit ==
    /\ CtlInit
    /\ VerIdle
    /\ ConcIdle
    /\ ResIdle
    /\ KeyIdle
    /\ CoseIdle
    /\ MsgIdle
    /\ VcIdle
    /\ ErrIdle
    /\ AgentIdle
    /\ MetricIdle
    /\ DirIdle
    /\ UpvIdle
    /\ LoadIdle
    /\ tfs \in [at : [TaskFiles -> {"bundle"}], dirs : [TaskDirs -> {"none", "dir", "file"}],
                json : {"v1"}]
    /\ task_run = NoTaskRun

not_task_vars ==
    <<ctl_vars, ver_vars, conc_vars, res_vars, key_vars, cose_vars, msg_vars, vc_vars,
      err_vars, agent_vars, metric_vars, dir_vars, upv_vars, load_vars>>

\* UpdateAction::run on a task list
TaskRun ==
    /\ task_run.op = "none"
    /\ \E tasks \in TaskLists(MaxTasks) :
       \E faults \in [1..Len(tasks) -> TaskFaults] :
          LET r == run(tasks, tfs, faults)
          IN  /\ tfs' = r.tfs
              /\ task_run' = [op |-> "run", tasks |-> tasks, result |-> r.result,
                              trace |-> r.trace, pre |-> tfs]
    /\ UNCHANGED not_task_vars

TasksNext ==
    \/ TaskRun

SpecTasks == TasksInit /\ [][TasksNext]_vars

\* ----------------------------------------------------------------- SpecUpv
\* the longest URL, in pieces
MaxUrl == 4

UrlPieces ==
    {"https://github.com", "/nodecross/nodex", "/releases/download/", "http://evil.example",
     "v1/agent.zip"}

RECURSIVE Urls(_)
Urls(n) ==
    IF n = 0 THEN {<<>>}
    ELSE Urls(n - 1)
         \cup {Append(u, c) : u \in {v \in Urls(n - 1) : Len(v) = n - 1}, c \in UrlPieces}

OutputPaths == {<<"/opt/nodex">>, <<"/opt/nodex", "/">>, <<"/opt/nodex", " ", "/">>}

UpvInit ==
    /\ CtlInit
    /\ VerIdle
    /\ ConcIdle
    /\ ResIdle
    /\ KeyIdle
    /\ CoseIdle
    /\ MsgIdle
    /\ VcIdle
    /\ ErrIdle
    /\ AgentIdle
    /\ MetricIdle
    /\ DirIdle
    /\ TaskIdle
    /\ LoadIdle
    /\ host \in [agent : {"old", "none"}, daemonized : {FALSE}, spawned : {<<>>}]
    /\ upv_run = NoUpvRun

not_upv_vars ==
    <<ctl_vars, ver_vars, conc_vars, res_vars, key_vars, cose_vars, msg_vars, vc_vars,
      err_vars, agent_vars, metric_vars, dir_vars, task_vars, load_vars>>

\* NodeX::update_version(binary_url, output_path)
UpvUpdateVersion ==
    /\ upv_run.op = "none"
    /\ \E binary_url \in Urls(MaxUrl), output_path \in OutputPaths, has_agent \in BOOLEAN,
          fault \in UpdateVersionFaults :
          LET r == update_version(host, binary_url, output_path, has_agent, fault)
          IN  /\ host' = r.host
              /\ upv_run' = [op |-> "update_version", binary_url |-> binary_url,
                             result |-> r.result, did |-> r.did, pre |-> host]
    /\ UNCHANGED not_upv_vars

UpvNext ==
    \/ UpvUpdateVersion

SpecUpv == UpvInit /\ [][UpvNext]_vars

\* ---------------------------------------------------------------- SpecLoad
\* the runtime states a file can hold
StoredInfos ==
    {RuntimeInfo_default,
     [state |-> "Updating", process_infos |-> <<ProcessInfo_new(1, "Agent")>>],
     [state |-> "Rollback", process_infos |-> <<>>]}

\* the pieces a file can be made of: those of a stored state, or a hole
Pieces == {to_chunks(info)[i] : info \in StoredInfos, i \in 1..Chunks} \cup {Hole}

RECURSIVE FileContents(_)
FileContents(n) ==
    IF n = 0 THEN {<<>>}
    ELSE FileContents(n - 1)
         \cup {Append(b, c) : b \in {d \in FileContents(n - 1) : Len(d) = n - 1},
                              c \in Pieces}

LoadInit ==
    /\ CtlInit
    /\ VerIdle
    /\ ConcIdle
    /\ ResIdle
    /\ KeyIdle
    /\ CoseIdle
    /\ MsgIdle
    /\ VcIdle
    /\ ErrIdle
    /\ AgentIdle
    /\ MetricIdle
    /\ DirIdle
    /\ TaskIdle
    /\ UpvIdle
    /\ state_file \in {[exists |-> FALSE, bytes |-> <<>>]}
                      \cup [exists : {TRUE}, bytes : FileContents(Chunks)]
    /\ load_run = NoLoadRun

not_load_vars ==
    <<ctl_vars, ver_vars, conc_vars, res_vars, key_vars, cose_vars, msg_vars, vc_vars,
      err_vars, agent_vars, metric_vars, dir_vars, task_vars, upv_vars>>

\* RuntimeInfo::load_or_default(path, lock)
LoadOrDefault ==
    /\ load_run.op = "none"
    /\ \E fault \in ReadFaults :
          LET r == load_or_default(state_file, fault)
          IN  /\ state_file' = r.file
              /\ load_run' = [op |-> "load_or_default", result |-> r.result,
                              info |-> r.info, fault |-> fault, pre |-> state_file]
    /\ UNCHANGED not_load_vars

LoadNext ==
    \/ LoadOrDefault

SpecLoad == LoadInit /\ [][LoadNext]_vars

\* ================================================================ claims
AgentPids(ri) ==
    LET a == filter_process_infos(ri, "Agent")
    IN  {a[i].process_id : i \in 1..Len(a)}

\* every file the archive holds is at its original path with the archived content
Restored(archive, tree) ==
    \A i \in 1..Len(archive.metadata) :
        archive.files[archive.metadata[i][2]] # Absent
            => tree[archive.metadata[i][1]] = archive.files[archive.metadata[i][2]]

\* C1: in every reachable state at most one agent process is alive.
C1_AtMostOneLiveAgent == Cardinality(alive) <= 1

\* C2: whenever handle runs in state Rollback and returns success, the files of
\* the newest backup are restored to their original paths, an agent process is
\* running, and the runtime state has been set to Default.
C2_RollbackSuccess ==
    (last.op = "Rollback" /\ last.result = "Ok")
        => /\ \A a \in last.latest : Restored(a, fs)
           /\ alive # {}
           /\ runtime_info.state = "Default"

C4_DefaultLaunchesAgent ==
    (last.op = "Default" /\ last.result = "Ok" /\ last.pre_alive = {})
        => /\ Cardinality(last.launched) = 1
           /\ alive = last.launched
           /\ last.launched \subseteq AgentPids(runtime_info)

AllEntries == {ZipEntries[i] : i \in 1..Len(ZipEntries)}

PolicyMismatch(in) == in.chain_len = 0 \/ ~in.identity_ok \/ ~in.issuer_ok

\* C7: when the leaf certificate's identity or issuer does not match the policy
\* (or the certificate chain is empty), verify returns a VerifyError value.
C7_MismatchIsVerifyError ==
    (vout # "none" /\ PolicyMismatch(vin)) => vout \in VerifyErrors

AllStepsSucceeded(in) ==
    /\ in.blob_read_ok /\ in.bundle_read_ok
    /\ ~(in.dir_exists /\ ~in.rm_ok) /\ in.tuf_ok
    /\ in.rekor_ok /\ in.n_rekor >= 1 /\ in.der_ok
    /\ in.bundle_ok
    /\ in.cert_parse_ok /\ in.chain_len >= 1 /\ in.identity_ok /\ in.issuer_ok
    /\ in.blob_sig_ok

\* C8: verify returns success only if the trust root was refreshed, a Rekor key
\* was present, the bundle verified against it, the leaf certificate matched the
\* policy identity and issuer, and the blob's signature verified.
C8_SuccessOnlyIfEveryStep == vout = "Ok" => AllStepsSucceeded(vin)

\* a verification that succeeded over a .sigstore directory left by an earlier run
C8_Witness == vout = "Ok" /\ vin.dir_exists /\ vin.chain_len = MaxChain

\* C9: a read of the runtime state file that overlaps a write never finds an
\* empty or partially written file: every read parses a RuntimeInfo that some
\* write stored in full.
C9_ReadsNeverSeePartialFile == \A t \in Threads : th[t].pc # "failed"

\* C10: no two state-handler executions overlap: while one thread is between
\* reading the runtime state and finishing its handler, no other thread runs a
\* handler or modifies the runtime state file.
C10_HandlersDoNotOverlap ==
    Cardinality({t \in Threads : th[t].pc \notin {"idle", "failed"}}) <= 1

\* the archive rollback() was given
RolledBack == CHOOSE a \in get_latest_backup(backups) : TRUE

\* C11: backup() followed by a successful rollback(get_latest_backup()) leaves the
\* backed-up paths with exactly the files and contents they had when backup()
\* ran, whatever was changed in between and whatever the scratch directory held.
C11_BackupRollbackRestoresTree ==
    (res.pc = "rolled" /\ res.result = "Ok") => fs = res.saved

\* C12: whenever rollback(archive) returns success, every path listed in the
\* archive's manifest exists at its original absolute path.
C12_ManifestPathsExist ==
    (res.pc = "rolled" /\ res.result = "Ok")
        => \A i \in 1..Len(RolledBack.metadata) : fs[RolledBack.metadata[i][1]] # Absent

\* C13: when rollback(archive) has returned, with success or with an error, each
\* destination named in the manifest holds either its complete content of before
\* the call or its complete backed-up content.
C13_DestinationsOldOrBackedUp ==
    res.pc = "rolled"
        => \A i \in 1..Len(RolledBack.metadata) :
              LET orig == RolledBack.metadata[i][1]
                  rel == RolledBack.metadata[i][2]
              IN  fs[orig] = res.pre[orig] \/ fs[orig] = RolledBack.files[rel]

\* the entries a save writes all come from the keyring g (NoKey: nothing saved)
KeystoreHolds(g) ==
    \A k \in WrittenBy(keystore.strategy) : keystore.entries[k] = g

\* C14: save(did) is all-or-nothing: whichever write fails or wherever the
\* process stops, the persisted keyring is the complete previous one (or absent)
\* or the complete new one, never a mixture.
C14_SaveAllOrNothing == \E g \in 0..MaxKeyring : KeystoreHolds(g)

FiveKeys == {"sign", "sign_cbor", "update", "recovery", "encrypt"}

\* C15: load_keyring succeeds only if all five entries are present, and then
\* returns exactly them; if any entry is absent it fails with KeyNotFound and
\* returns no key material.
C15_LoadNeedsAllFive ==
    key_run.op = "load"
        => IF \A k \in FiveKeys : keystore.entries[k] # NoKey
           THEN /\ key_run.result = "Ok"
                /\ key_run.keys = {<<k, keystore.entries[k]>> : k \in FiveKeys}
           ELSE /\ key_run.result = "Err_KeyNotFound"
                /\ key_run.keys = {}

\* a load met a keystore in which some entries are present and one is absent
C15_Witness ==
    /\ key_run.op = "load"
    /\ key_run.result = "Err_KeyNotFound"
    /\ keystore.entries["sign"] # NoKey
    /\ keystore.entries["encrypt"] = NoKey

\* C16: verify_message rejects with Expired every message whose token.exp is at
\* or before the current time (the steps before the expiry test succeeding),
\* the case now = token.exp included.
C16_RejectsAtOrPastExp ==
    (cose_out.result # "none" /\ cose_out.fault \in {"none", "sig_len"}
        /\ from_ts_seconds(cose_out.data.exp) <= cose_out.at)
        => cose_out.result = "Err_Expired"

\* C17: every message sign_message produces carries a token whose exp is
\* strictly later than the time of signing.
C17_SignedExpInFuture ==
    sign1 # <<>> => from_ts_seconds(sign1[1].data.exp) > sign1[1].signed_at

\* verify was given the text generate returned, addressed to the verifying
\* agent, with an HMAC that verifies and an activity repository that works
RoundTrip ==
    /\ msg_run.op = "verify"
    /\ msg_run.text = <<sent[1].text>>
    /\ sent[1].text.container.shape = "EncodedMessage"
    /\ sent[1].destination_did = msg_run.by
    /\ msg_run.hmac = "Ok_true"
    /\ msg_run.activity = "Ok"

\* verify returned a credential carrying the message generate was given
ReturnsWhatWasSent ==
    /\ msg_run.result = "Ok"
    /\ msg_run.vc # <<>>
    /\ msg_run.vc[1].container.payload = sent[1].message
    /\ msg_run.vc[1].container.destination_did = msg_run.by

SignatureValid ==
    /\ msg_run.op = "verify"
    /\ LET decoded == vc_from_str(msg_run.text[1])
       IN  /\ decoded.ok
           /\ vc_verify(decoded.vc, msg_run.resolved)
           /\ decoded.vc.container.shape = "EncodedMessage"

\* the destination_did of the message verify was given
DestinationOf == vc_from_str(msg_run.text[1]).vc.container.destination_did

VerifyActivities == {i \in 1..Len(activities) : activities[i].kind = "verify"}

\* C19: verify returns NotAddressedToMe for every signature-valid message whose
\* destination_did differs from the local DID, and then the project HMAC is
\* not checked and no verify activity is recorded.
C19_NotAddressedStopsProcessing ==
    SignatureValid /\ DestinationOf # msg_run.by
        => /\ msg_run.result = "NotAddressedToMe"
           /\ ~msg_run.hmac_checked
           /\ msg_run.calls = <<>>
           /\ VerifyActivities = {}

\* a verifying HMAC and a working repository, and still NotAddressedToMe
C19_Witness ==
    /\ SignatureValid
    /\ DestinationOf # msg_run.by
    /\ msg_run.hmac = "Ok_true"
    /\ msg_run.activity = "Ok"
    /\ msg_run.result = "NotAddressedToMe"

\* verify asked the repository once to record status, and the repository
\* holds that activity if it answered Ok
OneVerifyActivity(status) ==
    /\ Len(msg_run.calls) = 1
    /\ msg_run.calls[1].status = status
    /\ msg_run.calls[1].kind = "verify"
    /\ Cardinality(VerifyActivities) = (IF msg_run.activity = "Ok" THEN 1 ELSE 0)

\* what C20 says of a verify whose HMAC check said hmac_ok
ActivityAndResult(hmac_ok) ==
    /\ OneVerifyActivity(IF hmac_ok THEN "Valid" ELSE "Invalid")
    /\ msg_run.vc # <<>> <=> msg_run.result = "Ok"
    /\ msg_run.result = "Ok" <=> hmac_ok /\ msg_run.activity = "Ok"
    /\ ~hmac_ok /\ msg_run.activity = "Ok" => msg_run.result = "VerificationFailed"
    /\ msg_run.activity # "Ok"
        => msg_run.result \in {"BadRequest", "Unauthorized", "Forbidden", "NotFound",
                               "Conflict", "Other"}

\* C20: for a message that passes signature verification and is addressed to
\* the local DID, when the project HMAC check answers, verify records exactly
\* one verify activity, Valid if the HMAC verifies and Invalid otherwise,
\* returns the VC only when the HMAC verified and the activity was recorded,
\* VerificationFailed when the HMAC did not verify, and an error when recording
\* failed; when the HMAC check itself fails, verify returns that error and
\* records no verify activity.
C20_ActivityWhenHmacAnswers ==
    SignatureValid /\ DestinationOf = msg_run.by
        => IF msg_run.hmac = "Err"
           THEN /\ msg_run.result = "Other"
                /\ msg_run.calls = <<>>
                /\ VerifyActivities = {}
           ELSE ActivityAndResult(msg_run.hmac = "Ok_true")

\* C20 as stated: one verify activity whatever the HMAC check did, Invalid
\* whenever the HMAC did not verify.
C20_ActivityAlways ==
    SignatureValid /\ DestinationOf = msg_run.by
        => ActivityAndResult(msg_run.hmac = "Ok_true")

\* an Invalid activity recorded, and VerificationFailed returned
C20_Witness ==
    /\ SignatureValid
    /\ DestinationOf = msg_run.by
    /\ msg_run.hmac = "Ok_false"
    /\ msg_run.result = "VerificationFailed"
    /\ Cardinality(VerifyActivities) = 1
    /\ activities[Len(activities)].status = "Invalid"

\* the steps generate completed, as a set
StepsDone == {msg_run.steps[i] : i \in 1..Len(msg_run.steps)}

CreateActivities == {i \in 1..Len(activities) : activities[i].kind = "create"}

\* C21: generate returns a signed VC only if the destination DID resolved, the
\* project HMAC was created, the VC was signed and the create activity was
\* recorded, in this order; DestinationNotFound comes without a signature or
\* an activity, a failed HMAC without an activity, and a failed recording of
\* the activity is returned as the error, without a VC.
C21_GenerateStepsInOrder ==
    msg_run.op = "generate"
        => /\ wire # <<>> <=> msg_run.result = "Ok"
           /\ msg_run.result = "Ok"
                => /\ msg_run.steps = <<"find_identifier", "create_project_hmac",
                                        "vc_generate", "add_create_activity">>
                   /\ Cardinality(CreateActivities) = 1
           /\ msg_run.fault = "not_found"
                => /\ msg_run.result = "DestinationNotFound"
                   /\ "vc_generate" \notin StepsDone
                   /\ CreateActivities = {}
           /\ msg_run.fault = "hmac"
                => /\ msg_run.result = "Other"
                   /\ CreateActivities = {}
           /\ msg_run.fault = "none" /\ msg_run.activity # "Ok"
                => /\ msg_run.result = map_activity_error(msg_run.activity)
                   /\ CreateActivities = {}

\* the destination was not found, and generate had done nothing
C21_Witness ==
    /\ msg_run.op = "generate"
    /\ msg_run.fault = "not_found"
    /\ msg_run.result = "DestinationNotFound"
    /\ msg_run.steps = <<>>

\* the keys the resolved document lists under #signingKey
SigningKeys ==
    LET keys == vc_run.resolution.public_key[1]
    IN  IF vc_run.resolution.public_key = <<>> THEN {}
        ELSE {i \in 1..Len(keys) : keys[i].id = "#signingKey"}

\* DIDVCService::verify ran with the issuer resolved and no step failing for
\* another reason
VcVerified ==
    /\ vc_run.op = "verify"
    /\ vc_run.resolution.ok
    /\ vc_run.fault = "none"

\* C22: VC verify checks the signature against the issuer document's
\* #signingKey entry: with zero or more than one such entry the VC is
\* rejected, and with exactly one that entry's key decides, whatever other
\* entries the document lists.
C22_ExactlyOneSigningKey ==
    VcVerified
        => IF Cardinality(SigningKeys) # 1 THEN vc_run.result # "Ok"
           ELSE LET i == CHOOSE j \in SigningKeys : TRUE
                IN  vc_run.result = "Ok"
                        <=> CredentialSigner_verify(
                                vc_run.model[1], vc_run.resolution.public_key[1][i].key)

\* C23: VC verify rejects every VC whose expiration_date is present and has
\* passed relative to the caller's now, even when its signature is valid.
C23_ExpiredVcRejected ==
    /\ vc_run.op = "verify"
    /\ vc_run.model[1].expiration_date # <<>>
    /\ vc_run.model[1].expiration_date[1] < vc_run.now
    => vc_run.result # "Ok"

\* the responses of the verify-didcomm-message handler to a failure of
\* DIDComm verify
VerifyFailures ==
    {i \in 1..Len(responses) :
        /\ responses[i].by = "handler"
        /\ responses[i].parses
        /\ responses[i].outcome \notin {"Ok", "MessageActivity"}}

\* the failure kind an outcome names
FailureKind(outcome) == IF outcome \in {"U::Json", "S::Json"} THEN "Json" ELSE outcome

NamedFailures ==
    {"FindSender", "DidPublicKeyNotFound", "DecryptFailed", "Json", "VcService",
     "NotAddressedToMe", "MetadataBodyNotFound", "SidetreeFindRequestFailed"}

InternalFailures == {"DecryptFailed", "Json", "SidetreeFindRequestFailed"}

\* C24: in the verify-didcomm-message handler each of FindSender,
\* DidPublicKeyNotFound, VcService, NotAddressedToMe and MetadataBodyNotFound
\* is reported as its own error code, and DecryptFailed, Json and
\* SidetreeFindRequestFailed are reported as one code, different from those.
C24_DistinctCodesButInternal ==
    \A i, j \in VerifyFailures :
        LET a == FailureKind(responses[i].outcome)
            b == FailureKind(responses[j].outcome)
        IN  a \in NamedFailures /\ b \in NamedFailures
                => /\ responses[i].response.code # <<>>
                   /\ (responses[i].response.code = responses[j].response.code)
                        <=> (a = b \/ (a \in InternalFailures /\ b \in InternalFailures))

\* C24 as stated: no two of the named failure kinds are reported as the same
\* code.
C24_DistinctCodes ==
    \A i, j \in VerifyFailures :
        LET a == FailureKind(responses[i].outcome)
            b == FailureKind(responses[j].outcome)
        IN  a \in NamedFailures /\ b \in NamedFailures /\ a # b
                => responses[i].response.code # responses[j].response.code

\* a missing sender and a missing public key were reported, with two codes
C24_Witness ==
    /\ Len(responses) = 2
    /\ VerifyFailures = {1, 2}
    /\ responses[1].outcome = "FindSender"
    /\ responses[2].outcome = "DidPublicKeyNotFound"
    /\ responses[1].response.code # responses[2].response.code

\* the thousands of a response's code
CodeClass(r) == r.response.code[1] \div 1000

\* C25: the verify-didcomm-message handler reports not addressed to this DID
\* as 2xxx, a failed VC verification as 3xxx, an unknown DID or a missing
\* public key as 4xxx, and decrypt, JSON and resolver failures as 5xxx.
C25_CodesFollowTaxonomy ==
    \A i \in VerifyFailures :
        LET kind == FailureKind(responses[i].outcome)
        IN  /\ kind = "NotAddressedToMe" => CodeClass(responses[i]) = 2
            /\ kind = "VcService" => CodeClass(responses[i]) = 3
            /\ kind \in {"DidDocNotFound", "DidPublicKeyNotFound"}
                    => CodeClass(responses[i]) = 4
            /\ kind \in InternalFailures => CodeClass(responses[i]) = 5

\* C26: for every AgentErrorCode the HTTP status follows the range of the
\* code: 1xxx gives 400, 2xxx 403, 3xxx 401, 4xxx 404 and 5xxx 500.
C26_StatusFollowsRange ==
    \A i \in 1..Len(responses) :
        responses[i].by = "create_agent_error"
            => LET code == AgentErrorCode[responses[i].outcome]
                   status == responses[i].response.status
               IN  /\ responses[i].response.code = <<code>>
                   /\ 1000 <= code /\ code <= 1999 => status = <<400>>
                   /\ 2000 <= code /\ code <= 2999 => status = <<403>>
                   /\ 3000 <= code /\ code <= 3999 => status = <<401>>
                   /\ 4000 <= code /\ code <= 4999 => status = <<404>>
                   /\ 5000 <= code /\ code <= 5999 => status = <<500>>
                   /\ 1000 <= code /\ code <= 5999

\* a 3xxx code answered with 401 and a 2xxx code with 403
C26_Witness ==
    /\ Len(responses) = 2
    /\ responses[1].by = "create_agent_error"
    /\ responses[2].by = "create_agent_error"
    /\ responses[1].response.status = <<401>>
    /\ responses[2].response.status = <<403>>

\* C27: the descriptor chosen when the manager is constructed is the
\* LISTENER_FD of every agent it launches and refers to the same socket in
\* the agent; launch_agent and terminate_agent leave it open in the
\* controller, referring to that socket.
C27_ListenerFdKept ==
    mgr # <<>>
        => /\ mgr[1].socket # "closed"
           /\ fd_table[mgr[1].listener_fd] = mgr[1].socket
           /\ \A p \in 1..MaxPid :
                procs[p].state # "none"
                    => /\ procs[p].listener_fd = mgr[1].listener_fd
                       /\ procs[p].socket = mgr[1].socket

\* a manager with a socket of its own, on descriptor 4, whose first agent was
\* terminated and whose second agent listens on the same socket
C27_Witness ==
    /\ mgr # <<>>
    /\ mgr[1].listener = DEFAULT_FD
    /\ mgr[1].listener_fd = DEFAULT_FD + 1
    /\ procs[1].state = "exited"
    /\ procs[2].state = "running"
    /\ procs[2].socket = "listener"
    /\ ag_run.op = "launch"

\* C28: after terminate_agent has asked an agent to terminate, the agent
\* eventually stops running.
C28_TerminatedAgentStops ==
    \A p \in 1..MaxPid :
        (procs[p].state \in {"terminating", "hung"}) ~> (procs[p].state = "exited")

\* the metrics of a sequence
Elements(seq) == {seq[i] : i \in 1..Len(seq)}

\* C29: once start_send has taken the shutdown, every metric the in-memory
\* store held when the shutdown was notified is in the file-backed store,
\* and start_send does nothing more: the stores stay as they are and no
\* metric is received.
C29_HeldMetricsWritten ==
    /\ [](sender.pc = "done"
            => Elements(sender.held) \subseteq Elements(stores.file))
    /\ [][sender.pc = "done"
            => /\ stores' = stores
               /\ sender'.pc = "done"
               /\ Len(channel') >= Len(channel)]_vars

\* a keyring and its DID have been saved: every entry of the keystore is written
Saved(entries) == \A k \in DOMAIN entries : entries[k] # NoKey

\* C30: once a keyring and DID have been saved, a call of create_identifier,
\* whatever the resolver answers, leaves the stored keyring and DID as they
\* were and returns the document of the stored DID.
C30_KeyringCreatedOnce ==
    (key_run.op = "create_identifier" /\ Saved(key_run.pre))
        => /\ keystore.entries = key_run.pre
           /\ key_run.result = "Ok"
           /\ key_run.document = key_run.pre["did"]

\* C31: a run of the Rollback handler that follows a successful run of it, with
\* the same newest backup, changes nothing: the files, the runtime state and
\* the agent processes are after it what they were before it.
C31_RollbackAgainIsNoop ==
    (last.op = "Rollback" /\ last.again)
        => /\ fs = last.pre_fs
           /\ runtime_info = last.pre_info
           /\ alive = last.pre_alive

\* the same, for a second run that itself returns Ok
C31_NoopWhenSecondRunSucceeds ==
    (last.op = "Rollback" /\ last.again /\ last.result = "Ok")
        => /\ fs = last.pre_fs
           /\ runtime_info = last.pre_info
           /\ alive = last.pre_alive

BackupArchives == {n \in DirNames : is_backup_archive(workdir, n)}

\* C32: get_latest_backup returns a .tar.gz backup archive of the working
\* directory whose modification time is the greatest among the backup archives
\* there, never a file that is not one, and returns none exactly when the
\* working directory holds no backup archive.
C32_LatestBackupArchive ==
    dir_run.op = "get_latest_backup"
        => /\ dir_run.result = <<>> <=> BackupArchives = {}
           /\ dir_run.result # <<>>
                => /\ dir_run.result \in BackupArchives
                   /\ \A n \in BackupArchives :
                         workdir[n].mtime <= workdir[dir_run.result].mtime

\* the checks of verify_message, in the order the claim gives them
CheckOrder == <<"parse", "payload", "decode", "resolve", "key", "expiry", "signature">>

\* the checks the message of the last call does not pass
FailingChecks ==
    {c \in {"parse"} : "cose" \in cose_out.faults}
    \cup {c \in {"payload"} : "payload" \in cose_out.faults}
    \cup {c \in {"decode"} : "cbor" \in cose_out.faults}
    \cup {c \in {"resolve"} : cose_out.faults \cap {"repository", "no_document"} # {}}
    \cup {c \in {"key"} : cose_out.faults \cap {"no_key", "jwk"} # {}}
    \cup {c \in {"expiry"} : from_ts_seconds(cose_out.data.exp) < cose_out.at}
    \cup {c \in {"signature"} : \/ "sig_len" \in cose_out.faults
                                \/ cose_out.data.signed_by # cose_out.data.did}

\* the errors a failing check is reported with
ErrorsOf(check) ==
    CASE check = "parse" -> {"Err_Cose"}
      [] check = "payload" -> {"Err_PayloadEmpty"}
      [] check = "decode" -> {"Err_Cbor"}
      [] check = "resolve" -> {"Err_GetDidDocument", "Err_NotFoundPubkey"}
      [] check = "key" -> {"Err_NotFoundPubkey", "Err_GetPubkey"}
      [] check = "expiry" -> {"Err_Expired"}
      [] check = "signature" -> {"Err_VecToArray", "Err_Signature"}

FirstFailing ==
    CheckOrder[CHOOSE i \in 1..Len(CheckOrder) :
                  /\ CheckOrder[i] \in FailingChecks
                  /\ \A j \in 1..(i - 1) : CheckOrder[j] \notin FailingChecks]

\* C33: verify_message returns the error of the first check that fails, in the
\* order parse, payload, decode, resolve, key, expiry, signature, and Ok when
\* none fails: an expired message with an invalid signature yields Expired, an
\* expired message whose DID does not resolve or lacks the key NotFoundPubkey.
C33_FirstFailingCheckDecides ==
    cose_out.result # "none"
        => IF FailingChecks = {} THEN cose_out.result = "Ok"
           ELSE cose_out.result \in ErrorsOf(FirstFailing)

C33_Witness ==
    /\ cose_out.result = "Err_Expired"
    /\ {"expiry", "signature"} \subseteq FailingChecks

\* the failures inside a startup path that the environment of the call causes
InPathFailure ==
    \/ /\ ag_run.setup.path = "systemd"
       /\ ag_run.fault \in {"listen_fds", "listen_pid", "pid_mismatch", "no_fds"}
    \/ /\ ag_run.setup.path = "listener_fd"
       /\ ag_run.env.listener_fd = 0

\* C34: setup_listener takes the manager-started path when systemd's socket
\* activation is detected, otherwise the parent-passed path when LISTENER_FD is
\* set, otherwise the fresh bind, which removes a file that exists at the
\* socket path; a failure inside the path taken is returned as an error and
\* no other path is tried: no descriptor is made and no manager built.
C34_OneStartupPathByPriority ==
    ag_run.op = "new"
        => /\ ag_run.setup.path =
                  IF ag_run.env.systemd THEN "systemd"
                  ELSE IF ag_run.env.listener_fd_set THEN "listener_fd"
                  ELSE "bind"
           /\ (ag_run.setup.path = "bind" /\ ag_run.result = "Ok" /\ ag_run.env.uds_exists)
                  => ag_run.setup.removed
           /\ InPathFailure
                  => /\ ag_run.result = "FailedInitialize"
                     /\ ag_run.setup.result \in
                            {"ListenFdsError", "ListenPidError", "ListenPidMismatch",
                             "NoFileDescriptors", "ListenerFdParseError"}
                     /\ fd_table = ag_run.pre
                     /\ mgr = <<>>

C34_Witness ==
    /\ ag_run.op = "new"
    /\ ag_run.env.systemd
    /\ ag_run.env.listener_fd_set
    /\ ag_run.env.listener_fd \in Fds
    /\ ag_run.fault = "pid_mismatch"
    /\ ag_run.setup.result = "ListenPidMismatch"

\* C35: when the Default or the Rollback handler has forked an agent and has
\* returned, with success or with an error, the runtime state holds an Agent
\* entry with the pid of that child.
C35_LaunchedAgentRecorded ==
    (last.op \in {"Default", "Rollback"} /\ last.launched # {})
        => last.launched \subseteq AgentPids(runtime_info)

\* the error UpdateActionError gives a task of this kind
ErrorOfTask(task) == IF task.action = "Move" THEN "Err_Move" ELSE "Err_UpdateJson"

\* C36: UpdateAction::run executes its tasks in list order, each on what the
\* task before left, and stops at the first task that fails: it returns that
\* task's error, executes no task after it, and what the tasks before it did
\* stays; when no task fails every task is executed and Ok returned.
C36_TasksInOrderUntilFailure ==
    task_run.op = "run"
        => LET tr == task_run.trace
               n == Len(tr)
           IN  /\ \A i \in 1..n : tr[i].index = i
               /\ \A i \in 1..n : tr[i].before = IF i = 1 THEN task_run.pre
                                                 ELSE tr[i - 1].after
               /\ \A i \in 1..(n - 1) : tr[i].result = "Ok"
               /\ tfs = IF n = 0 THEN task_run.pre ELSE tr[n].after
               /\ IF n > 0 /\ tr[n].result # "Ok"
                  THEN task_run.result = ErrorOfTask(task_run.tasks[n])
                  ELSE task_run.result = "Ok" /\ n = Len(task_run.tasks)

C36_Witness ==
    /\ task_run.op = "run"
    /\ Len(task_run.tasks) = 2
    /\ Len(task_run.trace) = 1
    /\ task_run.result = "Err_Move"

\* C37: every metric the collector puts on the channel is eventually
\* transmitted by the send repository or written to the file store, and a
\* metric leaves the in-memory store only when it has been transmitted.
C37_NoMetricLost ==
    /\ \A m \in 1..MaxMetrics :
          (m \in Elements(channel))
              ~> (m \in Elements(stores.transmitted) \cup Elements(stores.file))
    /\ [][\A m \in Elements(stores.inmemory) \ Elements(stores'.inmemory) :
              m \in Elements(stores'.transmitted)]_vars

\* C38: create_identifier writes the new keyring and DID only after the
\* resolver has accepted the new identifier: when the lookup of the stored DID
\* or the publication of the new one fails, the keystore and the stored DID
\* are what they were before the call.
C38_SavedOnlyAfterPublished ==
    key_run.op = "create_identifier"
        => /\ key_run.result \in {"Err_find_identifier", "Err_create_identifier"}
                => keystore.entries = key_run.pre
           /\ keystore.entries # key_run.pre
                => key_run.create = "Ok" /\ key_run.result \in {"Ok", "panicked"}

C38_Witness ==
    /\ key_run.op = "create_identifier"
    /\ key_run.result = "Err_create_identifier"
    /\ Saved(key_run.pre)
    /\ keystore.entries = key_run.pre

\* the URL begins with https://github.com/nodecross/nodex/releases/download/
BeginsWithReleasePrefix(url) ==
    /\ Len(url) >= 3
    /\ SubSeq(url, 1, 3) = ReleasePrefix

\* C39: update_version attempts no download, removal, extraction or spawn
\* unless binary_url begins with the release prefix; for any other URL it
\* returns the error Invalid url and changes nothing.
C39_NothingDoneForOtherUrls ==
    upv_run.op = "update_version"
        => /\ upv_run.did # <<>> => BeginsWithReleasePrefix(upv_run.binary_url)
           /\ ~BeginsWithReleasePrefix(upv_run.binary_url)
                => /\ upv_run.result = "Err_InvalidUrl"
                   /\ host = upv_run.pre

C39_Witness ==
    /\ upv_run.op = "update_version"
    /\ upv_run.result = "Err_InvalidUrl"
    /\ Len(upv_run.binary_url) = MaxUrl
    /\ upv_run.binary_url[1] = "http://evil.example"
    /\ starts_with_anywhere(upv_run.binary_url, ReleasePrefix)

\* the file of the last call existed, could be read, and held one whole
\* document of a runtime state
StoredAndParses ==
    /\ load_run.pre.exists
    /\ load_run.fault = "none"
    /\ \E info \in StoredInfos : load_run.pre.bytes = to_chunks(info)

====
